---- MODULE Spec2Model ----
(***************************************************************************)
(* SIP user agent client (src/client), SIP server (src/server) and the     *)
(* message constructors they use (src/protocol), as a state machine.       *)
(*                                                                         *)
(* A dialog object (ClientCall / Call) lives on a heap (cObjs / sObjs) and *)
(* the call table (CallManager.calls / CallHandler.calls) maps a Call-ID   *)
(* to a heap index: a timer keeps its reference to the object after the    *)
(* table entry is deleted or replaced, as the Python code does.            *)
(***************************************************************************)
EXTENDS Integers, Sequences, FiniteSets, TLC

\* ------------------------------------------------------------ bounds
MaxObjs == 1      \* dialog objects an endpoint creates in one behaviour
MaxTime == 2      \* readings of time.time() are 1..MaxTime
MaxCseq == 5      \* the client's CSeq counter is explored up to this value
MaxTimers == 2    \* auto-answer timers pending at one endpoint
MaxLog == 4       \* responses a logged behaviour handles for its dialogs
MaxCalls == 2     \* dialog objects of an endpoint in the behaviours on a few Call-IDs
MaxLoops == 2     \* receive-loop threads of an endpoint alive at one time
MaxSends == 3     \* send_packet calls of a behaviour of the RTP session
MaxOps == 2       \* operations of one context in the behaviours of concurrent contexts

\* ------------------------------------------------------------ values
CallIds == {"c1", "c2"}
NoId == "noid"            \* no Call-ID header
Expires == 3600           \* 'expires' of every registrar entry, in seconds
RegId == "reg"            \* the Call-ID register() generates for its REGISTER
Tags == {"ta", "tb"}
LocalTags == {"ta"}       \* the tag generate_tag() hands the client at construction
None == "PyNone"          \* Python None
NoneText == "None"        \* what f"{x}" prints for x = None
EmptyTag == ""            \* ';tag=' with nothing after it
Absent == "absent"        \* the header is not in the message
NoTag == "notag"          \* the header is there and carries no tag parameter
SDP == "sdp"              \* a non-empty SDP body
Users == {"user", "other"}
NoUser == "nouser"        \* a From URI without a user part
ClientContact == "sip:user@client"   \* Contact of the client's requests
ServerContact == "sip:server"        \* Contact of the server's 200 OK for INVITE
PeerContact == "sip:user@peer"       \* Contact of a peer's requests

INITIATING == "INITIATING"
TRYING == "TRYING"
RINGING == "RINGING"
CONNECTED == "CONNECTED"
TERMINATED == "TERMINATED"
FAILED == "FAILED"
CallState == {INITIATING, TRYING, RINGING, CONNECTED, TERMINATED, FAILED}

VARIABLES
  cRunning,     \* SIPClient.running (and socket is not None)
  cObjs,        \* the ClientCall objects created so far
  cTab,         \* CallManager.calls: Call-ID -> index in cObjs, 0 when absent
  cseq,         \* SIPClient.cseq
  registered,   \* SIPClient.registered
  cLocalTag,    \* SIPClient.local_tag
  cTimers,      \* threading.Timer threads of _handle_incoming_invite
  cLoops,       \* live threads of SIPClient running _receive_loop
  sRunning,     \* SIPServer.running
  sObjs,        \* the Call objects created so far
  sTab,         \* CallHandler.calls
  sTimers,      \* threading.Timer threads of _handle_invite
  regUsers,     \* SIPServer.registered_users
  sLoops,       \* live threads of SIPServer running _receive_loop
  now,          \* the current reading of time.time()
  net,          \* datagrams in flight between the client and the server
  out,          \* the datagrams the last step handed to sendto, in order
  cbs,          \* the callbacks the last step invoked, in order
  last,         \* the last step: operation, message handled, dialog before it
  hist,         \* TRUE when the behaviour keeps the logs below
  rxLog,        \* responses the client handled for a dialog of its table
  cbLog,        \* callbacks the client invoked
  txLog,        \* datagrams the server sent
  rtp,          \* the RTPHandler: running, remote, sequence_number, timestamp, ssrc
  sent,         \* the last send_packet call: its number, datagrams and result
  job,          \* a value, its encoding and what decoding the encoding gives
  ctx,          \* the contexts that compose requests: position, request, loaded value
  db            \* CallService: its client, its position and the calls table it writes

cvars == <<cRunning, cObjs, cTab, cseq, registered, cLocalTag, cTimers, cLoops>>
svars == <<sRunning, sObjs, sTab, sTimers, regUsers, sLoops>>
ovars == <<out, cbs, last>>
lvars == <<hist, rxLog, cbLog, txLog, db>>
mvars == <<rtp, sent, job, ctx>>
vars == <<cvars, svars, now, net, ovars, lvars, mvars>>

\* ------------------------------------------------------------ messages
Msg(src, kind, method, code, call_id, from, to, num, body, contact, user) ==
  [src |-> src, kind |-> kind, method |-> method, code |-> code,
   call_id |-> call_id, from |-> from, to |-> to, num |-> num,
   body |-> body, contact |-> contact, user |-> user]

NoMsg == Msg("none", "none", "", 0, NoId, Absent, Absent, 0, "", Absent, NoUser)

\* an extract_tag that finds no tag in any header value
ExtractTag_lost(h) == None

\* SIPParser.extract_tag: the tag parameter of a header value, None without one
ExtractTag(h) == IF h \in {Absent, NoTag} THEN None ELSE h

\* 'x or y' of Python on an optional string
OrElse(x, y) == IF x \in {None, EmptyTag} THEN y ELSE x

\* f"...;tag={x}": the text of an optional string inside an f-string
Render(x) == IF x = None THEN NoneText ELSE x

\* ------------------------------------------------------------ dialog objects
NoObj == [call_id |-> NoId, state |-> "NONE", connected_at |-> 0,
          terminated_at |-> 0, local_tag |-> None, remote_tag |-> None,
          remote_sdp |-> None]

\* ClientCall.__init__
ClientCall(call_id) ==
  [call_id |-> call_id, state |-> INITIATING, connected_at |-> 0,
   terminated_at |-> 0, local_tag |-> None, remote_tag |-> None,
   remote_sdp |-> None]

\* a set_state that does not assign RINGING
ClientCall_set_state_skip(o, state, t) ==
  [o EXCEPT !.state = IF state = RINGING THEN @ ELSE state,
            !.connected_at = IF state = CONNECTED /\ @ = 0 THEN t ELSE @,
            !.terminated_at = IF state = TERMINATED /\ @ = 0 THEN t ELSE @]

\* a set_state that stamps connected_at at every entry into CONNECTED
ClientCall_set_state_restamp(o, state, t) ==
  [o EXCEPT !.state = state,
            !.connected_at = IF state = CONNECTED THEN t ELSE @,
            !.terminated_at = IF state = TERMINATED /\ @ = 0 THEN t ELSE @]

\* ClientCall.set_state at time t (0 is the unset timestamp)
ClientCall_set_state(o, state, t) ==
  [o EXCEPT !.state = state,
            !.connected_at = IF state = CONNECTED /\ @ = 0 THEN t ELSE @,
            !.terminated_at = IF state = TERMINATED /\ @ = 0 THEN t ELSE @]

\* a get_call that returns the oldest dialog whatever the Call-ID
CallManager_get_call_first(call_id) == IF Len(cObjs) > 0 THEN 1 ELSE 0

\* a get_call that falls back to the newest dialog for an unknown Call-ID
CallManager_get_call_any(call_id) ==
  IF call_id \in CallIds /\ cTab[call_id] # 0 THEN cTab[call_id] ELSE Len(cObjs)

\* CallManager.get_call: the heap index of the dialog, 0 for None
CallManager_get_call(call_id) == IF call_id \in CallIds THEN cTab[call_id] ELSE 0

\* CallManager.get_active_calls: the dialogs of the table that are not TERMINATED
CallManager_get_active_calls ==
  {i \in 1..Len(cObjs) :
     (\E c \in CallIds : cTab[c] = i) /\ cObjs[i].state # TERMINATED}

\* the object behind a heap index
ClientObj(i) == IF i = 0 THEN NoObj ELSE cObjs[i]

\* a threading.Timer is its own thread: two timers started with the same
\* arguments are two timers
TimerId(timers) ==
  LET ids == {t.id : t \in timers}
  IN CHOOSE n \in 1..(Cardinality(timers) + 1) : n \notin ids

\* ------------------------------------------------------------ contexts
\* the threads that call into one SIPClient: two user contexts (register,
\* make_call, hangup) and the receive loop (_handle_response, _send_ack)
Contexts == {"user1", "user2", "recv"}

\* a context that is in no operation
Idle == [pc |-> "idle", req |-> NoMsg, load |-> 0, ops |-> 0]

\* ------------------------------------------------------------ observation
Callback(name, call_id, seen) == [name |-> name, call_id |-> call_id, seen |-> seen]

\* ------------------------------------------------------------ call service
\* no CallService in the process
NoService == [svc |-> FALSE, on |-> FALSE, pc |-> "idle", calls |-> <<>>]

\* CallService.__init__: active_clients is empty; the calls table is empty
NewService == [NoService EXCEPT !.svc = TRUE]

\* Call(call_id=call_id, ..., state="INITIATING") of initiate_call
Record(call_id) == [call_id |-> call_id, state |-> INITIATING]

\* db.query(Call).filter(Call.call_id == call_id).first(): its row, 0 for None
QueryFirst(calls, call_id) ==
  IF \E k \in 1..Len(calls) : calls[k].call_id = call_id
  THEN CHOOSE k \in 1..Len(calls) :
         /\ calls[k].call_id = call_id
         /\ \A j \in 1..(k - 1) : calls[j].call_id # call_id
  ELSE 0

\* CallService._update_call_state_sync
update_call_state_sync(calls, call_id, state) ==
  LET k == QueryFirst(calls, call_id)
  IN IF k = 0 THEN calls ELSE [calls EXCEPT ![k].state = state]

\* the state on_trying, on_ringing, on_connected and on_ended of
\* _get_or_create_client pass to _update_call_state_sync
ServiceState(name) ==
  IF name = "on_call_trying" THEN TRYING
  ELSE IF name = "on_call_ringing" THEN RINGING
  ELSE IF name = "on_call_connected" THEN CONNECTED
  ELSE IF name = "on_call_ended" THEN TERMINATED
  ELSE None

\* a callback of the client as the service set it
ServiceCallback(calls, cb) ==
  IF ServiceState(cb.name) = None THEN calls
  ELSE update_call_state_sync(calls, cb.call_id, ServiceState(cb.name))

RECURSIVE ServiceCallbacks(_, _)
ServiceCallbacks(calls, c) ==
  IF c = <<>> THEN calls
  ELSE ServiceCallbacks(ServiceCallback(calls, Head(c)), Tail(c))

\* what CallService does in a step of its client: the callbacks it set run
\* inside the client's handler; after register() _get_or_create_client keeps
\* the client; after make_call() initiate_call returns, or marks its record
\* FAILED when make_call raised; after hangup() hangup_call marks its record
Service_step(op, m, c) ==
  IF ~db.svc THEN db
  ELSE IF ~db.on
  THEN [db EXCEPT !.on = (op = "register")]
  ELSE IF db.pc = "call" /\ op \in {"make_call", "make_call_none"}
  THEN [db EXCEPT !.pc = "idle"]
  ELSE IF db.pc = "call" /\ op = "make_call_raised"
  THEN [db EXCEPT !.pc = "idle", !.calls[Len(db.calls)].state = FAILED]
  ELSE IF op = "hangup"
  THEN [db EXCEPT !.calls = update_call_state_sync(@, m.call_id, TERMINATED)]
  ELSE [db EXCEPT !.calls = ServiceCallbacks(@, c)]

Observe(op, m, pre, o, c) ==
  /\ out' = o
  /\ cbs' = c
  /\ last' = [op |-> op, msg |-> m, pre |-> pre.state]
  /\ hist' = hist
  /\ cbLog' = IF hist THEN cbLog \o c ELSE cbLog
  /\ rxLog' = IF hist /\ op = "c_response" /\ pre # NoObj
               THEN Append(rxLog, m) ELSE rxLog
  /\ txLog' = IF hist
               THEN txLog \o SelectSeq(o, LAMBDA x : x.src = "server")
               ELSE txLog
  /\ db' = Service_step(op, m, c)
  /\ UNCHANGED mvars

\* SIPClient._send_request / _send_message: nothing leaves without a socket
ClientSend(msgs) == IF cRunning THEN msgs ELSE <<>>

ClientUpd(run, objs, tab, num, reg, timers) ==
  /\ cRunning' = run
  /\ cObjs' = objs
  /\ cTab' = tab
  /\ cseq' = num
  /\ registered' = reg
  /\ cTimers' = timers
  /\ cLocalTag' = cLocalTag
  /\ cLoops' = IF run /\ ~cRunning THEN cLoops + 1 ELSE cLoops

\* ------------------------------------------------------------ client requests
\* SIPRequest.create_register as register() calls it; g is _generate_tag()
create_register(num, g) ==
  Msg("client", "req", "REGISTER", 0, RegId, g, NoTag, num, "", ClientContact, "user")

\* SIPRequest.create_invite as make_call() calls it, with the SDP offer as body
create_invite(call_id, num, g) ==
  Msg("client", "req", "INVITE", 0, call_id, g, NoTag, num, SDP, ClientContact, "user")

\* a create_bye that gives every BYE the CSeq number 1
create_bye_first(call_id, num, from_tag, to_tag) ==
  Msg("client", "req", "BYE", 0, call_id, Render(from_tag), Render(to_tag), 1,
      "", Absent, "user")

\* SIPRequest.create_bye
create_bye(call_id, num, from_tag, to_tag) ==
  Msg("client", "req", "BYE", 0, call_id, Render(from_tag), Render(to_tag), num,
      "", Absent, "user")

\* the ACK _send_ack builds for a dialog
AckOf(o, num) ==
  Msg("client", "req", "ACK", 0, o.call_id, Render(o.local_tag),
      Render(o.remote_tag), num, "", Absent, "user")

\* ------------------------------------------------------------ client operations
\* SIPClient.start
ClientStart ==
  /\ ClientUpd(TRUE, cObjs, cTab, cseq, registered, cTimers)
  /\ Observe("c_start", NoMsg, NoObj, <<>>, <<>>)
  /\ UNCHANGED <<svars, now, net>>

\* SIPClient.stop
ClientStop ==
  /\ ClientUpd(FALSE, cObjs, cTab, cseq, registered, cTimers)
  /\ Observe("c_stop", NoMsg, NoObj, <<>>, <<>>)
  /\ UNCHANGED <<svars, now, net>>

\* a thread of the client leaves _receive_loop: its recvfrom on the socket that
\* stop() closed raises, or returns and the loop test fails; a thread blocked in
\* recvfrom may as well stay there, join(timeout=2.0) does not end it
ClientLoopExit ==
  /\ cLoops > (IF cRunning THEN 1 ELSE 0)
  /\ cLoops' = cLoops - 1
  /\ UNCHANGED <<cRunning, cObjs, cTab, cseq, registered, cLocalTag, cTimers>>
  /\ Observe("c_loop_exit", NoMsg, NoObj, <<>>, <<>>)
  /\ UNCHANGED <<svars, now, net>>

\* SIPClient.register; resolves: gethostbyname(server_host) succeeds
register(resolves, g) ==
  /\ IF resolves
     THEN /\ ClientUpd(TRUE, cObjs, cTab, cseq + 1, registered, cTimers)
          /\ Observe("register", NoMsg, NoObj, <<create_register(cseq, g)>>, <<>>)
     ELSE /\ ClientUpd(TRUE, cObjs, cTab, cseq, registered, cTimers)
          /\ Observe("register_raised", NoMsg, NoObj, <<>>, <<>>)

\* the Call-IDs generate_call_id() has not handed to this client before
FreshIds == CallIds \ {cObjs[i].call_id : i \in 1..Len(cObjs)}

\* SIPClient.make_call; valid: parse_sip_uri(remote_uri) is not None;
\* gr and gi are the tags create_register and create_invite generate
make_call(call_id, valid, resolves, gr, gi) ==
  LET reg == ~registered
      n1 == IF reg THEN cseq + 1 ELSE cseq
      regs == IF reg THEN <<create_register(cseq, gr)>> ELSE <<>>
      obj == [ClientCall_set_state(ClientCall(call_id), INITIATING, now)
                EXCEPT !.local_tag = cLocalTag]
  IN /\ call_id \in FreshIds
     /\ IF reg /\ ~resolves
        THEN /\ ClientUpd(TRUE, cObjs, cTab, cseq, registered, cTimers)
             /\ Observe("make_call_raised", NoMsg, NoObj, <<>>, <<>>)
        ELSE IF ~valid
        THEN /\ ClientUpd(TRUE, cObjs, cTab, n1, registered, cTimers)
             /\ Observe("make_call_none", NoMsg, NoObj, regs, <<>>)
        ELSE /\ ClientUpd(TRUE, Append(cObjs, obj),
                          [cTab EXCEPT ![call_id] = Len(cObjs) + 1],
                          n1 + 1, registered, cTimers)
             /\ IF resolves
                THEN Observe("make_call", NoMsg, NoObj,
                             regs \o <<create_invite(call_id, n1, gi)>>, <<>>)
                ELSE Observe("make_call_raised", NoMsg, NoObj, regs, <<>>)

\* SIPClient.hangup
hangup(call_id) ==
  LET i == CallManager_get_call(call_id)
      o == ClientObj(i)
      bye == create_bye(call_id, cseq, OrElse(o.local_tag, cLocalTag),
                        OrElse(o.remote_tag, EmptyTag))
  IN IF i = 0
     THEN /\ ClientUpd(cRunning, cObjs, cTab, cseq, registered, cTimers)
          /\ Observe("hangup", [NoMsg EXCEPT !.call_id = call_id], NoObj, <<>>, <<>>)
     ELSE /\ ClientUpd(cRunning,
                       [cObjs EXCEPT ![i] = ClientCall_set_state(o, TERMINATED, now)],
                       cTab, cseq + 1, registered, cTimers)
          /\ Observe("hangup", [NoMsg EXCEPT !.call_id = call_id], o,
                     ClientSend(<<bye>>), <<>>)

\* ------------------------------------------------------------ responses
\* To header of SIPResponse.create_ok / create_ringing: the request's To header,
\* with ';tag=<to_tag>' appended when a tag is given and the header has none
RespTo(to, to_tag) ==
  IF to = NoTag /\ to_tag \notin {None, EmptyTag} THEN to_tag ELSE to

\* SIPResponse.create_ok(request, to_tag, contact, body)
create_ok(src, req, to_tag, contact, body) ==
  Msg(src, "resp", req.method, 200, req.call_id, req.from, RespTo(req.to, to_tag),
      req.num, body, contact, req.user)

\* SIPResponse.create_ringing(request, to_tag)
create_ringing(src, req, to_tag) ==
  Msg(src, "resp", req.method, 180, req.call_id, req.from, RespTo(req.to, to_tag),
      req.num, "", Absent, req.user)

\* ------------------------------------------------------------ client receive
\* SIPClient._handle_response
Client_handle_response(m) ==
  LET i == CallManager_get_call(m.call_id)
      pre == ClientObj(i)
      same == ClientUpd(cRunning, cObjs, cTab, cseq, registered, cTimers)
      st(state) == ClientCall_set_state(pre, state, now)
      to(state) == [cObjs EXCEPT ![i] = st(state)]
      o1 == [pre EXCEPT !.remote_tag = IF m.to # Absent THEN ExtractTag(m.to) ELSE @,
                        !.remote_sdp = m.body]
      o2 == ClientCall_set_state(o1, CONNECTED, now)
  IN IF m.code = 200
     THEN IF m.method = "REGISTER"
          THEN /\ ClientUpd(cRunning, cObjs, cTab, cseq, TRUE, cTimers)
               /\ Observe("c_response", m, pre, <<>>, <<>>)
          ELSE IF m.method = "INVITE" /\ i # 0
          THEN /\ ClientUpd(cRunning, [cObjs EXCEPT ![i] = o2], cTab, cseq + 1,
                            registered, cTimers)
               /\ Observe("c_response", m, pre, ClientSend(<<AckOf(o2, cseq)>>),
                          <<Callback("on_call_connected", m.call_id, o2.state)>>)
          ELSE same /\ Observe("c_response", m, pre, <<>>, <<>>)
     ELSE IF m.code = 180 /\ i # 0
     THEN /\ ClientUpd(cRunning, to(RINGING), cTab, cseq, registered, cTimers)
          /\ Observe("c_response", m, pre, <<>>,
                     <<Callback("on_call_ringing", m.call_id, st(RINGING).state)>>)
     ELSE IF m.code = 100 /\ i # 0
     THEN /\ ClientUpd(cRunning, to(TRYING), cTab, cseq, registered, cTimers)
          /\ Observe("c_response", m, pre, <<>>,
                     <<Callback("on_call_trying", m.call_id, st(TRYING).state)>>)
     ELSE IF m.code >= 400 /\ i # 0
     THEN /\ ClientUpd(cRunning, to(FAILED), cTab, cseq, registered, cTimers)
          /\ Observe("c_response", m, pre, <<>>,
                     <<Callback("on_call_ended", m.call_id, st(FAILED).state)>>)
     ELSE same /\ Observe("c_response", m, pre, <<>>, <<>>)

\* SIPClient._handle_incoming_invite; g is generate_tag()
Client_handle_incoming_invite(m, g) ==
  LET i == Len(cObjs) + 1
      o0 == [ClientCall(m.call_id) EXCEPT !.remote_tag = ExtractTag(m.from),
                                          !.local_tag = g, !.remote_sdp = m.body]
      o1 == ClientCall_set_state(o0, RINGING, now)
      pre == ClientObj(CallManager_get_call(m.call_id))
  IN IF m.call_id = NoId \/ m.from = Absent
     THEN /\ ClientUpd(cRunning, cObjs, cTab, cseq, registered, cTimers)
          /\ Observe("c_invite", m, pre, <<>>, <<>>)
     ELSE /\ ClientUpd(cRunning, Append(cObjs, o1), [cTab EXCEPT ![m.call_id] = i],
                       cseq, registered,
                       cTimers \cup {[id |-> TimerId(cTimers), obj |-> i, req |-> m,
                                      phase |-> "armed"]})
          /\ Observe("c_invite", m, pre,
                     ClientSend(<<create_ringing("client", m, g)>>),
                     <<Callback("on_incoming_call", m.call_id, o1.state)>>)

\* CallManager.remove_call
CallManager_remove_call(objs, tab, call_id, t) ==
  IF call_id \in CallIds /\ tab[call_id] # 0
  THEN <<[objs EXCEPT ![tab[call_id]] = ClientCall_set_state(@, TERMINATED, t)],
         [tab EXCEPT ![call_id] = 0]>>
  ELSE <<objs, tab>>

\* SIPClient._handle_bye
Client_handle_bye(m) ==
  LET i == CallManager_get_call(m.call_id)
      pre == ClientObj(i)
      objs1 == [cObjs EXCEPT ![i] = ClientCall_set_state(pre, TERMINATED, now)]
      rem == CallManager_remove_call(objs1, cTab, m.call_id, now)
  IN IF i # 0
     THEN /\ ClientUpd(cRunning, rem[1], rem[2], cseq, registered, cTimers)
          /\ Observe("c_bye", m, pre, ClientSend(<<create_ok("client", m, None, Absent, "")>>),
                     <<Callback("on_call_ended", m.call_id, rem[1][i].state)>>)
     ELSE /\ ClientUpd(cRunning, cObjs, cTab, cseq, registered, cTimers)
          /\ Observe("c_bye", m, pre, <<>>, <<>>)

\* SIPClient._handle_ack
Client_handle_ack(m) ==
  LET i == CallManager_get_call(m.call_id)
      pre == ClientObj(i)
  IN /\ ClientUpd(cRunning,
                  IF i # 0
                  THEN [cObjs EXCEPT ![i] = ClientCall_set_state(pre, CONNECTED, now)]
                  ELSE cObjs,
                  cTab, cseq, registered, cTimers)
     /\ Observe("c_ack", m, pre, <<>>, <<>>)

\* SIPClient._handle_request
Client_handle_request(m, g) ==
  IF m.method = "INVITE" THEN Client_handle_incoming_invite(m, g)
  ELSE IF m.method = "BYE" THEN Client_handle_bye(m)
  ELSE IF m.method = "ACK" THEN Client_handle_ack(m)
  ELSE /\ ClientUpd(cRunning, cObjs, cTab, cseq, registered, cTimers)
       /\ Observe("c_unhandled", m, NoObj, <<>>, <<>>)

\* SIPClient._handle_message, called by _receive_loop for a parsed datagram
Client_handle_message(m, g) ==
  /\ cRunning
  /\ IF m.kind = "req" THEN Client_handle_request(m, g) ELSE Client_handle_response(m)

\* SIPClient._auto_answer, first half: the test of call.state
Client_auto_answer_check(t) ==
  /\ t \in cTimers /\ t.phase = "armed"
  /\ ClientUpd(cRunning, cObjs, cTab, cseq, registered,
               IF cObjs[t.obj].state # RINGING
               THEN cTimers \ {t}
               ELSE (cTimers \ {t}) \cup {[t EXCEPT !.phase = "checked"]})
  /\ Observe("c_timer_check", t.req, cObjs[t.obj], <<>>, <<>>)

\* SIPClient._auto_answer, second half: 200 OK with the SDP answer, CONNECTED
Client_auto_answer_act(t) ==
  LET pre == cObjs[t.obj]
      o1 == ClientCall_set_state(pre, CONNECTED, now)
  IN /\ t \in cTimers /\ t.phase = "checked"
     /\ ClientUpd(cRunning, [cObjs EXCEPT ![t.obj] = o1], cTab, cseq, registered,
                  cTimers \ {t})
     /\ Observe("c_timer_act", t.req, pre,
                ClientSend(<<create_ok("client", t.req, pre.local_tag, Absent, SDP)>>),
                <<Callback("on_call_connected", pre.call_id, o1.state)>>)

\* ------------------------------------------------------------ server
NoCall == [call_id |-> NoId, state |-> "NONE", connected_at |-> 0,
           terminated_at |-> 0, from_tag |-> None, to_tag |-> None,
           remote_sdp |-> None, local_sdp |-> None]

\* Call.__init__
Call(call_id) ==
  [call_id |-> call_id, state |-> INITIATING, connected_at |-> 0,
   terminated_at |-> 0, from_tag |-> None, to_tag |-> None,
   remote_sdp |-> None, local_sdp |-> None]

\* a set_state of the server's Call that stamps at every entry
Call_set_state_restamp(o, state, t) ==
  [o EXCEPT !.state = state,
            !.connected_at = IF state = CONNECTED THEN t ELSE @,
            !.terminated_at = IF state = TERMINATED THEN t ELSE @]

\* Call.set_state at time t
Call_set_state(o, state, t) ==
  [o EXCEPT !.state = state,
            !.connected_at = IF state = CONNECTED /\ @ = 0 THEN t ELSE @,
            !.terminated_at = IF state = TERMINATED /\ @ = 0 THEN t ELSE @]

\* CallHandler.get_call
CallHandler_get_call(call_id) == IF call_id \in CallIds THEN sTab[call_id] ELSE 0

ServerObj(i) == IF i = 0 THEN NoCall ELSE sObjs[i]

\* a remove_call that keeps the table entry
CallHandler_remove_call_kept(objs, tab, call_id, t) ==
  IF call_id \in CallIds /\ tab[call_id] # 0
  THEN <<[objs EXCEPT ![tab[call_id]] = Call_set_state(@, TERMINATED, t)], tab>>
  ELSE <<objs, tab>>

\* CallHandler.remove_call
CallHandler_remove_call(objs, tab, call_id, t) ==
  IF call_id \in CallIds /\ tab[call_id] # 0
  THEN <<[objs EXCEPT ![tab[call_id]] = Call_set_state(@, TERMINATED, t)],
         [tab EXCEPT ![call_id] = 0]>>
  ELSE <<objs, tab>>

ServerUpd(run, objs, tab, timers, reg) ==
  /\ sRunning' = run
  /\ sObjs' = objs
  /\ sTab' = tab
  /\ sTimers' = timers
  /\ regUsers' = reg
  /\ sLoops' = IF run /\ ~sRunning THEN sLoops + 1 ELSE sLoops

\* a _send_message whose datagrams never leave
ServerSend_lost(msgs) == <<>>

\* SIPServer._send_message: nothing leaves without a socket
ServerSend(msgs) == IF sRunning THEN msgs ELSE <<>>

\* the response SIPServer._send_response builds
StatusResponse(req, code) ==
  Msg("server", "resp", req.method, code, req.call_id, req.from, req.to, req.num,
      "", Absent, req.user)

\* the 100 Trying _handle_invite builds
TryingResponse(req) ==
  Msg("server", "resp", req.method, 100, req.call_id, req.from, req.to, req.num,
      "", Absent, req.user)

\* SIPServer.start
ServerStart ==
  /\ ServerUpd(TRUE, sObjs, sTab, sTimers, regUsers)
  /\ Observe("s_start", NoMsg, NoCall, <<>>, <<>>)
  /\ UNCHANGED <<cvars, now, net>>

\* SIPServer.stop
ServerStop ==
  /\ ServerUpd(FALSE, sObjs, sTab, sTimers, regUsers)
  /\ Observe("s_stop", NoMsg, NoCall, <<>>, <<>>)
  /\ UNCHANGED <<cvars, now, net>>

\* a thread of the server leaves _receive_loop, as at the client
ServerLoopExit ==
  /\ sLoops > (IF sRunning THEN 1 ELSE 0)
  /\ sLoops' = sLoops - 1
  /\ UNCHANGED <<sRunning, sObjs, sTab, sTimers, regUsers>>
  /\ Observe("s_loop_exit", NoMsg, NoCall, <<>>, <<>>)
  /\ UNCHANGED <<cvars, now, net>>

\* registered_users.get(user) of a user that never registered
NoBinding == [contact |-> Absent, address |-> "none", expires |-> 0, registered_at |-> 0]

\* f"sip:{username}@{addr[0]}:{addr[1]}"
AddrContact(username, addr) ==
  CASE username = "user" /\ addr = "peer" -> "sip:user@peer"
    [] username = "user" /\ addr = "peer2" -> "sip:user@peer2"
    [] username = "other" /\ addr = "peer" -> "sip:other@peer"
    [] username = "other" /\ addr = "peer2" -> "sip:other@peer2"
    [] username = "user" /\ addr = "client" -> "sip:user@client"
    [] OTHER -> "sip:other@client"

\* a _handle_register that keeps the entry a username already has
Server_handle_register_keep(m) ==
  IF m.from = Absent \/ m.to = Absent \/ m.user \notin Users
  THEN /\ ServerUpd(sRunning, sObjs, sTab, sTimers, regUsers)
       /\ Observe("s_register", m, NoCall, ServerSend(<<StatusResponse(m, 400)>>), <<>>)
  ELSE /\ ServerUpd(sRunning, sObjs, sTab, sTimers,
                    IF regUsers[m.user] # NoBinding THEN regUsers
                    ELSE [regUsers EXCEPT ![m.user] =
                            [contact |-> IF m.contact = Absent
                                         THEN AddrContact(m.user, m.src) ELSE m.contact,
                             address |-> m.src,
                             expires |-> Expires, registered_at |-> now]])
       /\ Observe("s_register", m, NoCall,
                  ServerSend(<<create_ok("server", m, None, m.contact, "")>>), <<>>)

\* SIPServer._handle_register
Server_handle_register(m) ==
  IF m.from = Absent \/ m.to = Absent \/ m.user \notin Users
  THEN /\ ServerUpd(sRunning, sObjs, sTab, sTimers, regUsers)
       /\ Observe("s_register", m, NoCall, ServerSend(<<StatusResponse(m, 400)>>), <<>>)
  ELSE /\ ServerUpd(sRunning, sObjs, sTab, sTimers,
                    [regUsers EXCEPT ![m.user] =
                       [contact |-> IF m.contact = Absent
                                    THEN AddrContact(m.user, m.src) ELSE m.contact,
                        address |-> m.src,
                        expires |-> Expires, registered_at |-> now]])
       /\ Observe("s_register", m, NoCall,
                  ServerSend(<<create_ok("server", m, None, m.contact, "")>>), <<>>)

\* SIPServer._handle_invite; g is generate_tag()
Server_handle_invite(m, g) ==
  LET old == CallHandler_get_call(m.call_id)
      i == IF old = 0 THEN Len(sObjs) + 1 ELSE old
      pre == ServerObj(old)
      o0 == IF old = 0 THEN Call(m.call_id) ELSE pre
      o1 == [o0 EXCEPT !.from_tag = ExtractTag(m.from), !.to_tag = g,
                       !.remote_sdp = m.body]
      o2 == Call_set_state(Call_set_state(o1, TRYING, now), RINGING, now)
      objs == IF old = 0 THEN Append(sObjs, o2) ELSE [sObjs EXCEPT ![i] = o2]
  IN IF m.call_id = NoId \/ m.from = Absent \/ m.to = Absent
     THEN /\ ServerUpd(sRunning, sObjs, sTab, sTimers, regUsers)
          /\ Observe("s_invite", m, pre, ServerSend(<<StatusResponse(m, 400)>>), <<>>)
     ELSE /\ ServerUpd(sRunning, objs, [sTab EXCEPT ![m.call_id] = i],
                       sTimers \cup {[id |-> TimerId(sTimers), obj |-> i, req |-> m,
                                      to_tag |-> g, phase |-> "armed"]},
                       regUsers)
          /\ Observe("s_invite", m, pre,
                     ServerSend(<<TryingResponse(m), create_ringing("server", m, g)>>),
                     <<Callback("s_on_incoming_call", m.call_id, o2.state)>>)

\* SIPServer._auto_answer_invite, first half: the test of call.state
Server_auto_answer_check(t) ==
  /\ t \in sTimers /\ t.phase = "armed"
  /\ ServerUpd(sRunning, sObjs, sTab,
               IF sObjs[t.obj].state # RINGING
               THEN sTimers \ {t}
               ELSE (sTimers \ {t}) \cup {[t EXCEPT !.phase = "checked"]},
               regUsers)
  /\ Observe("s_timer_check", t.req, sObjs[t.obj], <<>>, <<>>)

\* SIPServer._auto_answer_invite, second half: SDP answer, 200 OK, CONNECTED
Server_auto_answer_act(t) ==
  LET pre == sObjs[t.obj]
      o1 == Call_set_state([pre EXCEPT !.local_sdp = SDP], CONNECTED, now)
  IN /\ t \in sTimers /\ t.phase = "checked"
     /\ ServerUpd(sRunning, [sObjs EXCEPT ![t.obj] = o1], sTab, sTimers \ {t}, regUsers)
     /\ Observe("s_timer_act", t.req, pre,
                ServerSend(<<create_ok("server", t.req, t.to_tag, ServerContact, SDP)>>), <<>>)

\* SIPServer._handle_ack
Server_handle_ack(m) ==
  LET i == CallHandler_get_call(m.call_id)
      pre == ServerObj(i)
  IN /\ ServerUpd(sRunning,
                  IF i # 0 THEN [sObjs EXCEPT ![i] = Call_set_state(pre, CONNECTED, now)]
                  ELSE sObjs,
                  sTab, sTimers, regUsers)
     /\ Observe("s_ack", m, pre, <<>>, <<>>)

\* SIPServer._handle_bye and SIPServer._handle_cancel (the same statements)
ServerTerminate(op, m) ==
  LET i == CallHandler_get_call(m.call_id)
      pre == ServerObj(i)
      objs1 == [sObjs EXCEPT ![i] = Call_set_state(pre, TERMINATED, now)]
      rem == CallHandler_remove_call(objs1, sTab, m.call_id, now)
  IN IF i # 0
     THEN /\ ServerUpd(sRunning, rem[1], rem[2], sTimers, regUsers)
          /\ Observe(op, m, pre, ServerSend(<<create_ok("server", m, None, Absent, "")>>),
                     <<>>)
     ELSE /\ ServerUpd(sRunning, sObjs, sTab, sTimers, regUsers)
          /\ Observe(op, m, pre, ServerSend(<<StatusResponse(m, 481)>>), <<>>)

Server_handle_bye(m) == ServerTerminate("s_bye", m)

Server_handle_cancel(m) == ServerTerminate("s_cancel", m)

\* SIPServer._handle_options
Server_handle_options(m) ==
  /\ ServerUpd(sRunning, sObjs, sTab, sTimers, regUsers)
  /\ Observe("s_options", m, NoCall,
             ServerSend(<<create_ok("server", m, None, Absent, "")>>), <<>>)

\* SIPServer._handle_request
Server_handle_request(m, g) ==
  IF m.method = "REGISTER" THEN Server_handle_register(m)
  ELSE IF m.method = "INVITE" THEN Server_handle_invite(m, g)
  ELSE IF m.method = "ACK" THEN Server_handle_ack(m)
  ELSE IF m.method = "BYE" THEN Server_handle_bye(m)
  ELSE IF m.method = "CANCEL" THEN Server_handle_cancel(m)
  ELSE IF m.method = "OPTIONS" THEN Server_handle_options(m)
  ELSE /\ ServerUpd(sRunning, sObjs, sTab, sTimers, regUsers)
       /\ Observe("s_unhandled", m, NoCall, ServerSend(<<StatusResponse(m, 501)>>), <<>>)

\* SIPServer._handle_message, called by _receive_loop for a parsed datagram
Server_handle_message(m, g) ==
  /\ sRunning
  /\ IF m.kind = "req"
     THEN Server_handle_request(m, g)
     ELSE /\ ServerUpd(sRunning, sObjs, sTab, sTimers, regUsers)
          /\ Observe("s_response", m, NoCall, <<>>, <<>>)

\* ------------------------------------------------------------ environment
\* time.time() moves on
Tick ==
  /\ now < MaxTime
  /\ now' = now + 1
  /\ UNCHANGED <<cvars, svars, net, ovars, lvars, mvars>>

\* datagrams a peer of the client may send it
Resp(code, method, call_id, to, body) ==
  Msg("peer", "resp", method, code, call_id, "ta", to, 1, body, Absent, "user")

Req(method, call_id, from, to, body) ==
  Msg("peer", "req", method, 0, call_id, from, to, 1, body, PeerContact, "user")

ClientInput ==
  {Resp(200, "INVITE", c, t, SDP) : c \in CallIds, t \in {Absent, NoTag, "tb"}}
  \cup {Resp(200, "INVITE", c, "tb", "") : c \in CallIds}
  \cup {Resp(code, "INVITE", c, "tb", "") : code \in {100, 180, 404}, c \in CallIds}
  \cup {Resp(183, "INVITE", "c1", "tb", ""), Resp(499, "INVITE", "c1", "tb", ""),
        Resp(200, "REGISTER", RegId, NoTag, ""),
        Resp(200, "BYE", "c1", "tb", ""), Resp(180, "INVITE", NoId, "tb", "")}
  \cup {Req("INVITE", c, "tb", NoTag, SDP) : c \in CallIds}
  \cup {Req(method, c, "tb", "ta", "") : method \in {"BYE", "ACK"}, c \in CallIds}
  \cup {Req("INVITE", "c1", Absent, NoTag, SDP), Req("BYE", NoId, "tb", "ta", ""),
        Req("OPTIONS", "c1", "tb", NoTag, "")}

\* datagrams a peer of the server may send it
ServerInput ==
  {Req("INVITE", c, "ta", NoTag, SDP) : c \in CallIds}
  \cup {Req("INVITE", NoId, "ta", NoTag, SDP), Req("INVITE", "c1", Absent, NoTag, SDP),
        Req("INVITE", "c1", "ta", Absent, SDP), Req("INVITE", "c1", "ta", "tb", SDP)}
  \cup {Req(method, c, "ta", "tb", "") : method \in {"ACK", "BYE", "CANCEL"},
                                         c \in CallIds}
  \cup {Req("BYE", NoId, "ta", "tb", ""), Req("REGISTER", RegId, "ta", NoTag, ""),
        Req("OPTIONS", "c1", "ta", NoTag, ""), Req("INFO", "c1", "ta", NoTag, ""),
        Resp(200, "INVITE", "c1", "tb", "")}

\* ------------------------------------------------------------ steps
\* a step of the client's receive loop on a datagram from a peer
\* the tags generate_tag() may return while m is handled: it is called for an
\* INVITE only
TagsFor(m) == IF m.kind = "req" /\ m.method = "INVITE" THEN Tags ELSE {"ta"}

\* a well-formed INVITE reaches the client only while fewer than n dialog
\* objects exist and fewer than MaxTimers timers are pending
ClientRoom(m, n) ==
  (/\ m.kind = "req" /\ m.method = "INVITE"
   /\ m.call_id # NoId /\ m.from # Absent)
    => (Len(cObjs) < n /\ Cardinality(cTimers) < MaxTimers)

\* the same at the server, where an INVITE for a Call-ID of the table creates
\* no object
ServerRoom(m, n) ==
  (/\ m.kind = "req" /\ m.method = "INVITE"
   /\ m.call_id # NoId /\ m.from # Absent /\ m.to # Absent)
    => (/\ CallHandler_get_call(m.call_id) = 0 => Len(sObjs) < n
        /\ Cardinality(sTimers) < MaxTimers)

ClientReceive ==
  /\ cseq < MaxCseq
  /\ \E m \in ClientInput : \E g \in TagsFor(m) :
       /\ ClientRoom(m, MaxObjs)
       /\ Client_handle_message(m, g)
       /\ UNCHANGED <<svars, now, net>>

ClientTimerCheck ==
  \E t \in cTimers : Client_auto_answer_check(t) /\ UNCHANGED <<svars, now, net>>

ClientTimerAct ==
  \E t \in cTimers : Client_auto_answer_act(t) /\ UNCHANGED <<svars, now, net>>

Register ==
  /\ cseq < MaxCseq
  /\ \E r \in BOOLEAN, g \in Tags : register(r, g) /\ UNCHANGED <<svars, now, net>>

MakeCall ==
  /\ cseq + 1 < MaxCseq
  /\ Len(cObjs) < MaxObjs
  /\ \E c \in CallIds, v \in BOOLEAN, r \in BOOLEAN :
       \E gr \in (IF registered THEN {"ta"} ELSE Tags),
          gi \in (IF v THEN Tags ELSE {"ta"}) :
         make_call(c, v, r, gr, gi) /\ UNCHANGED <<svars, now, net>>

Hangup ==
  /\ cseq < MaxCseq
  /\ \E c \in CallIds : hangup(c) /\ UNCHANGED <<svars, now, net>>

\* a step of the server's receive loop on a datagram from a peer
ServerReceive ==
  \E m \in ServerInput : \E g \in TagsFor(m) :
    /\ ServerRoom(m, MaxObjs)
    /\ Server_handle_message(m, g)
    /\ UNCHANGED <<cvars, now, net>>

ServerTimerCheck ==
  \E t \in sTimers : Server_auto_answer_check(t) /\ UNCHANGED <<cvars, now, net>>

ServerTimerAct ==
  \E t \in sTimers : Server_auto_answer_act(t) /\ UNCHANGED <<cvars, now, net>>

\* ------------------------------------------------------------ RTP
\* a 32-bit quantity and beyond, as two 16-bit limbs: hi * 65536 + lo, hi of any
\* size, so that a Python int above 2^32 - 1 has hi > 65535
Wide(hi, lo) == [hi |-> hi, lo |-> lo]

\* RTPHandler(): sequence_number 0, timestamp 0, ssrc int(time.time()) & 0xFFFFFFFF
RtpNew ==
  [running |-> FALSE, remote |-> FALSE, sequence_number |-> 0,
   timestamp |-> Wide(0, 0), ssrc |-> Wide(26000, 7)]

\* RTPPacket(payload_type, sequence_number, timestamp, ssrc, payload)
RTPPacket(payload_type, sequence_number, timestamp, ssrc, payload) ==
  [version |-> 2, padding |-> 0, extension |-> 0, cc |-> 0, marker |-> 0,
   payload_type |-> payload_type, sequence_number |-> sequence_number,
   timestamp |-> timestamp, ssrc |-> ssrc, csrc_list |-> <<>>, payload |-> payload]

\* RTPPacket.pack: struct.pack('!BBHII', ...) raises struct.error (ok = FALSE)
\* for a field outside its width; '|' is bitwise
RTPPacket_pack(p) ==
  LET RECURSIVE Or(_, _)
      Or(a, b) == IF a = 0 THEN b
                  ELSE IF b = 0 THEN a
                  ELSE 2 * Or(a \div 2, b \div 2)
                       + (IF a % 2 = 1 \/ b % 2 = 1 THEN 1 ELSE 0)
      U16(x) == <<x \div 256, x % 256>>
      U32(w) == U16(w.hi) \o U16(w.lo)
      Fits32(w) == w.hi \in 0..65535 /\ w.lo \in 0..65535
      byte1 == Or(Or(p.version * 64, p.padding * 32), Or(p.extension * 16, p.cc))
      byte2 == Or(p.marker * 128, p.payload_type)
      RECURSIVE Csrc(_)
      Csrc(l) == IF l = <<>> THEN <<>> ELSE U32(Head(l)) \o Csrc(Tail(l))
  IN IF /\ byte1 \in 0..255
        /\ byte2 \in 0..255
        /\ p.sequence_number \in 0..65535
        /\ Fits32(p.timestamp)
        /\ Fits32(p.ssrc)
        /\ \A k \in 1..Len(p.csrc_list) : Fits32(p.csrc_list[k])
     THEN [ok |-> TRUE,
           data |-> <<byte1, byte2>> \o U16(p.sequence_number) \o U32(p.timestamp)
                    \o U32(p.ssrc) \o Csrc(p.csrc_list) \o p.payload]
     ELSE [ok |-> FALSE, data |-> <<>>]

\* an unpack that takes the whole second byte as the payload type
RTPPacket_unpack_nomask(data) ==
  LET W(k) == Wide(data[k] * 256 + data[k + 1], data[k + 2] * 256 + data[k + 3])
      cc == data[1] % 16
      n == IF cc * 4 <= Len(data) - 12 THEN cc ELSE (Len(data) - 12) \div 4
  IN IF Len(data) < 12
     THEN [ok |-> FALSE, p |-> RTPPacket(0, 0, Wide(0, 0), Wide(0, 0), <<>>)]
     ELSE [ok |-> TRUE,
           p |-> [version |-> (data[1] \div 64) % 4, padding |-> (data[1] \div 32) % 2,
                  extension |-> (data[1] \div 16) % 2, cc |-> cc,
                  marker |-> (data[2] \div 128) % 2, payload_type |-> data[2],
                  sequence_number |-> data[3] * 256 + data[4],
                  timestamp |-> W(5), ssrc |-> W(9),
                  csrc_list |-> [k \in 1..n |-> W(13 + 4 * (k - 1))],
                  payload |-> SubSeq(data, 13 + 4 * n, Len(data))]]

\* RTPPacket.unpack: ValueError (ok = FALSE) below 12 bytes; of the cc CSRCs
\* the header announces, those the data holds are read, the rest is payload
RTPPacket_unpack(data) ==
  LET W(k) == Wide(data[k] * 256 + data[k + 1], data[k + 2] * 256 + data[k + 3])
      cc == data[1] % 16
      n == IF cc * 4 <= Len(data) - 12 THEN cc ELSE (Len(data) - 12) \div 4
  IN IF Len(data) < 12
     THEN [ok |-> FALSE, p |-> RTPPacket(0, 0, Wide(0, 0), Wide(0, 0), <<>>)]
     ELSE [ok |-> TRUE,
           p |-> [version |-> (data[1] \div 64) % 4, padding |-> (data[1] \div 32) % 2,
                  extension |-> (data[1] \div 16) % 2, cc |-> cc,
                  marker |-> (data[2] \div 128) % 2, payload_type |-> data[2] % 128,
                  sequence_number |-> data[3] * 256 + data[4],
                  timestamp |-> W(5), ssrc |-> W(9),
                  csrc_list |-> [k \in 1..n |-> W(13 + 4 * (k - 1))],
                  payload |-> SubSeq(data, 13 + 4 * n, Len(data))]]

\* RTPHandler.send_packet(payload, payload_type, marker)
send_packet(payload, payload_type, marker) ==
  LET packet == [RTPPacket(payload_type, rtp.sequence_number, rtp.timestamp,
                           rtp.ssrc, payload) EXCEPT !.marker = marker]
      packed == RTPPacket_pack(packet)
      sum == rtp.timestamp.lo + Len(payload)
  IN IF ~rtp.running \/ ~rtp.remote
     THEN /\ rtp' = rtp
          /\ sent' = [n |-> sent.n + 1, data |-> <<>>, ret |-> FALSE]
     ELSE IF ~packed.ok
     THEN /\ rtp' = rtp
          /\ sent' = [n |-> sent.n + 1, data |-> <<>>, ret |-> FALSE]
     ELSE /\ rtp' = [rtp EXCEPT
                       !.sequence_number = (rtp.sequence_number + 1) % 65536,
                       !.timestamp = Wide(rtp.timestamp.hi + sum \div 65536,
                                          sum % 65536)]
          /\ sent' = [n |-> sent.n + 1, data |-> <<packed.data>>, ret |-> TRUE]

\* send_packet with a payload of 0, 1 or 160 bytes
RtpSend ==
  /\ sent.n < MaxSends
  /\ \E payload \in {<<>>, <<65>>, [k \in 1..160 |-> k]},
        payload_type \in {0, 8}, marker \in {0, 1} :
       send_packet(payload, payload_type, marker)
  /\ UNCHANGED <<cvars, svars, now, net, ovars, lvars, job, ctx>>

\* RTPHandler.start
RtpStart ==
  /\ rtp' = [rtp EXCEPT !.running = TRUE]
  /\ UNCHANGED <<cvars, svars, now, net, ovars, lvars, sent, job, ctx>>

\* RTPHandler.stop
RtpStop ==
  /\ rtp' = [rtp EXCEPT !.running = FALSE]
  /\ UNCHANGED <<cvars, svars, now, net, ovars, lvars, sent, job, ctx>>

\* RTPHandler.set_remote
RtpSetRemote ==
  /\ rtp' = [rtp EXCEPT !.remote = TRUE]
  /\ UNCHANGED <<cvars, svars, now, net, ovars, lvars, sent, job, ctx>>

\* the session after k send_packet calls of 160 bytes each
RtpAfter(k) ==
  LET lo == (k % 65536) * 160
      hi == (k \div 65536) * 160
  IN [RtpNew EXCEPT !.running = TRUE, !.remote = TRUE,
                    !.sequence_number = k % 65536,
                    !.timestamp = Wide(hi + lo \div 65536, lo % 65536)]

NextRtp ==
  \/ RtpStart
  \/ RtpStop
  \/ RtpSetRemote
  \/ RtpSend

\* ------------------------------------------------------------ specifications
\* the state after SIPClient() and SIPServer() are constructed (up = FALSE), or
\* after start() has returned on both (up = TRUE); h: the behaviour keeps logs
InitFor(h, up, media, d) ==
  /\ cRunning = up
  /\ cObjs = <<>>
  /\ cTab = [c \in CallIds |-> 0]
  /\ cseq = 1
  /\ registered = FALSE
  /\ cLocalTag \in LocalTags
  /\ cTimers = {}
  /\ cLoops = (IF up THEN 1 ELSE 0)
  /\ sRunning = up
  /\ sObjs = <<>>
  /\ sTab = [c \in CallIds |-> 0]
  /\ sTimers = {}
  /\ regUsers = [u \in Users |-> NoBinding]
  /\ sLoops = (IF up THEN 1 ELSE 0)
  /\ now = 1
  /\ net = {}
  /\ out = <<>>
  /\ cbs = <<>>
  /\ last = [op |-> "init", msg |-> NoMsg, pre |-> NoObj.state]
  /\ hist = h
  /\ rxLog = <<>>
  /\ cbLog = <<>>
  /\ txLog = <<>>
  /\ sent = [n |-> 0, data |-> <<>>, ret |-> FALSE]
  /\ IF media THEN TRUE ELSE rtp = RtpNew /\ job = <<>>
  /\ ctx = [t \in Contexts |-> Idle]
  /\ db = d

InitAll(h, up, media) == InitFor(h, up, media, NoService)

InitWith(h, up) == InitAll(h, up, FALSE)

Init == InitWith(FALSE, FALSE)

\* both endpoints started
InitUp == InitWith(FALSE, TRUE)

\* the client against arbitrary peers
NextClient ==
  \/ ClientStart
  \/ Register
  \/ MakeCall
  \/ Hangup
  \/ ClientReceive
  \/ ClientTimerCheck
  \/ ClientTimerAct

SpecClient == Init /\ [][NextClient]_vars

\* the server against arbitrary peers
NextServer ==
  \/ ServerStart
  \/ ServerReceive
  \/ ServerTimerCheck
  \/ ServerTimerAct

SpecServer == Init /\ [][NextServer]_vars

\* a new RTP session, or one that has sent 65534 or 26843544 packets of 160 bytes
InitRtp ==
  /\ InitAll(FALSE, FALSE, TRUE)
  /\ rtp \in {RtpNew, RtpAfter(65534), RtpAfter(26843544)}
  /\ job = <<>>

SpecRtp == InitRtp /\ [][NextRtp]_vars

\* the RTPPacket objects packed: every flag, CSRC counts and lists of 0, 1 and
\* 2 entries (and the count 15), the ends of the ranges of the wide fields
Packets ==
  [version : {2}, padding : {0, 1}, extension : {0, 1}, cc : {0, 1, 2, 15},
   marker : {0, 1}, payload_type : {0, 127}, sequence_number : {0, 65535},
   timestamp : {Wide(0, 0), Wide(65535, 65535)}, ssrc : {Wide(57005, 48879)},
   csrc_list : {<<>>, <<Wide(1, 2)>>, <<Wide(65535, 65535), Wide(0, 0)>>},
   payload : {<<>>, <<65>>, <<1, 2, 3, 4, 255>>}]

\* data = p.pack()
CodecPack ==
  /\ job.codec = "rtp"
  /\ job.stage = "new"
  /\ LET r == RTPPacket_pack(job.p)
     IN job' = [job EXCEPT !.stage = IF r.ok THEN "packed" ELSE "error",
                           !.wire = r.data]
  /\ UNCHANGED <<cvars, svars, now, net, ovars, lvars, rtp, sent, ctx>>

\* RTPPacket.unpack(data[:k]), of all of the data or of a part
CodecUnpack ==
  /\ job.codec = "rtp"
  /\ job.stage = "packed"
  /\ \E k \in {0, 5, 11, 12, Len(job.wire)} :
       /\ k <= Len(job.wire)
       /\ LET r == RTPPacket_unpack(SubSeq(job.wire, 1, k))
          IN job' = [job EXCEPT !.stage = "unpacked", !.cut = k, !.ok = r.ok,
                                !.q = r.p]
  /\ UNCHANGED <<cvars, svars, now, net, ovars, lvars, rtp, sent, ctx>>

\* ------------------------------------------------------------ SIP text
\* A text is a sequence of tokens: the line break "\r\n", the blank " ", the
\* colon ":", and words. The words of a body are single characters; no other
\* word holds a blank or a line break, and none but a URI holds a colon.
CRLF == "\r\n"

\* an enumeration that takes any word in capitals for a method
SIPMethod_any ==
  {"INVITE", "ACK", "BYE", "CANCEL", "REGISTER", "OPTIONS", "INFO", "UPDATE",
   "PRACK", "REFER", "NOTIFY", "SUBSCRIBE", "FOO"}

\* the values of SIPMethod
SIPMethod ==
  {"INVITE", "ACK", "BYE", "CANCEL", "REGISTER", "OPTIONS", "INFO", "UPDATE",
   "PRACK", "REFER", "NOTIFY", "SUBSCRIBE"}

\* SIPRequest.to_string, SIPResponse.to_string: "\r\n".join(lines) + "\r\n" of
\* the start line, "name: value" per header in insertion order, an empty line,
\* and the body when it is not empty
SIPMessage_to_string(m) ==
  LET RECURSIVE Lines(_)
      Lines(h) == IF h = <<>> THEN <<>>
                  ELSE <<CRLF>> \o Head(h)[1] \o <<":", " ">> \o Head(h)[2]
                       \o Lines(Tail(h))
      start == IF m.kind = "req"
               THEN <<m.method, " ">> \o m.uri \o <<" ", "SIP/2.0">>
               ELSE <<"SIP/2.0", " ", m.code, " ">> \o m.reason
  IN start \o Lines(m.headers) \o <<CRLF>>
     \o (IF m.body # <<>> THEN <<CRLF>> \o m.body ELSE <<>>) \o <<CRLF>>

\* SIPParser.parse with _parse_request and _parse_response: kind "none" is the
\* result None, kind "raise" the ValueError of an unknown method
SIPParser_parse(message) ==
  LET Space == {" ", "\t", "\r", "\n", CRLF}
      Upper == SIPMethod \cup {"FOO", "OK"}
      Digits3 == {"100", "180", "200", "299", "400", "404", "501"}
      EnumReason(c) == CASE c = "100" -> <<"Trying">>
                         [] c = "180" -> <<"Ringing">>
                         [] c = "200" -> <<"OK">>
                         [] c = "400" -> <<"Bad", " ", "Request">>
                         [] c = "404" -> <<"Not", " ", "Found">>
                         [] c = "501" -> <<"Not", " ", "Implemented">>
                         [] OTHER -> <<>>
      ToInt(t) == CASE t = <<"0">> -> 0 [] t = <<"1">> -> 1 [] t = <<"2">> -> 2
                  [] t = <<"3">> -> 3 [] t = <<"4">> -> 4 [] t = <<"5">> -> 5
                  [] OTHER -> -1
      Min(S) == CHOOSE i \in S : \A j \in S : i <= j
      Max(S) == CHOOSE i \in S : \A j \in S : i >= j
      Strip(l) == LET S == {i \in 1..Len(l) : l[i] \notin Space}
                  IN IF S = {} THEN <<>> ELSE SubSeq(l, Min(S), Max(S))
      RECURSIVE Split(_)
      Split(t) == LET S == {i \in 1..Len(t) : t[i] = CRLF}
                  IN IF S = {} THEN <<t>>
                     ELSE <<SubSeq(t, 1, Min(S) - 1)>>
                          \o Split(SubSeq(t, Min(S) + 1, Len(t)))
      DropTail(ls) == LET S == {i \in 1..Len(ls) : Strip(ls[i]) # <<>>}
                      IN IF S = {} THEN <<>> ELSE SubSeq(ls, 1, Max(S))
      FirstWord(l) == LET S == {i \in 1..Len(l) : l[i] \in Space}
                      IN IF S = {} THEN l ELSE SubSeq(l, 1, Min(S) - 1)
      Rest(l) == Strip(SubSeq(l, Len(FirstWord(l)) + 1, Len(l)))
      RECURSIVE Join(_)
      Join(ls) == IF Len(ls) = 1 THEN ls[1]
                  ELSE ls[1] \o <<CRLF>> \o Join(Tail(ls))
      RECURSIVE CharLen(_)
      CharLen(b) == IF b = <<>> THEN 0
                    ELSE (IF Head(b) = CRLF THEN 2 ELSE 1) + CharLen(Tail(b))
      RECURSIVE Take(_, _)
      Take(b, n) == IF n = 0 \/ b = <<>> THEN <<>>
                    ELSE IF Head(b) # CRLF THEN <<Head(b)>> \o Take(Tail(b), n - 1)
                    ELSE IF n = 1 THEN <<"\r">>
                    ELSE <<CRLF>> \o Take(Tail(b), n - 2)
      Only(S) == CHOOSE x \in S : TRUE
      Put(h, name, value) ==
        IF \E k \in 1..Len(h) : h[k][1] = name
        THEN [k \in 1..Len(h) |->
                IF h[k][1] = name THEN <<name, h[k][2] \o <<",", " ">> \o value>>
                ELSE h[k]]
        ELSE Append(h, <<name, value>>)
      Header(h, line) ==
        LET S == {k \in 1..Len(line) : line[k] = ":"}
        IN IF S = {} \/ Min(S) = 1 \/ Min(S) = Len(line) THEN h
           ELSE Put(h, SubSeq(line, 1, Min(S) - 1),
                    Strip(SubSeq(line, Min(S) + 1, Len(line))))
      Continued(h, line) ==
        IF h = <<>> THEN h
        ELSE [h EXCEPT ![Len(h)] = <<h[Len(h)][1], h[Len(h)][2] \o <<" ">> \o Strip(line)>>]
      Line(h, line) ==
        IF line # <<>> /\ line[1] \in {" ", "\t"} THEN Continued(h, line)
        ELSE Header(h, line)
      RECURSIVE Headers(_, _)
      Headers(ls, h) ==
        IF ls = <<>> THEN h
        ELSE Only({Headers(Tail(ls), x) : x \in {Line(h, Only({Strip(Head(ls))}))}})
      Get(headers, name) ==
        LET S == {k \in 1..Len(headers) : headers[k][1] = name}
        IN IF S = {} THEN <<>> ELSE headers[Min(S)][2]
      Body(joined, length) ==
        IF joined # <<>> /\ length >= 0 /\ CharLen(joined) >= length
        THEN Take(joined, length) ELSE joined
      result(kind, w1, w2, w3, headers, joined) ==
        [kind |-> kind,
         method |-> IF kind \in {"req", "raise"} THEN w1[1] ELSE "",
         uri |-> IF kind = "req" THEN w2 ELSE <<>>,
         code |-> IF kind = "resp" THEN w2[1] ELSE "",
         reason |-> IF kind # "resp" THEN <<>>
                    ELSE IF EnumReason(w2[1]) # <<>> THEN EnumReason(w2[1]) ELSE w3,
         request_method |->
           IF kind = "resp" /\ Get(headers, <<"CSeq">>) # <<>>
           THEN Only({x[Len(x)] : x \in {Get(headers, <<"CSeq">>)}}) ELSE "",
         headers |-> IF kind \in {"req", "resp"} THEN headers ELSE <<>>,
         body |-> IF kind \in {"req", "resp"}
                  THEN Body(joined, ToInt(Strip(Get(headers, <<"Content-Length">>))))
                  ELSE <<>>]
      Parsed(lines, start, empty) ==
        LET w1 == FirstWord(start)
            w2 == FirstWord(Rest(start))
            w3 == Rest(Rest(start))
            request_match == /\ Len(w1) = 1 /\ w1[1] \in Upper /\ w2 # <<>>
                             /\ w3 = <<"SIP/2.0">>
            response_match == /\ w1 = <<"SIP/2.0">> /\ Len(w2) = 1
                              /\ w2[1] \in Digits3 /\ w3 # <<>>
            last_header == IF empty = {} THEN Len(lines) ELSE Min(empty) - 1
            joined == IF empty # {} /\ Min(empty) < Len(lines)
                      THEN Join(SubSeq(lines, Min(empty) + 1, Len(lines))) ELSE <<>>
            kind == IF request_match
                    THEN (IF w1[1] \in SIPMethod THEN "req" ELSE "raise")
                    ELSE IF response_match THEN "resp" ELSE "none"
        IN IF kind \in {"none", "raise"}
           THEN result(kind, w1, <<>>, <<>>, <<>>, <<>>)
           ELSE Only({result(kind, w1, w2, w3, h, b) :
                        h \in {Headers(SubSeq(lines, 2, last_header), <<>>)},
                        b \in {joined}})
  IN IF Strip(message) = <<>>
     THEN result("none", <<>>, <<>>, <<>>, <<>>, <<>>)
     ELSE Only({Parsed(l, Strip(l[1]), {k \in 2..Len(l) : Strip(l[k]) = <<>>}) :
                  l \in {DropTail(Split(message))}})

\* the message the handlers are given for the parsed text r
AsMsg(r) ==
  LET Get(name, none) ==
        LET S == {k \in 1..Len(r.headers) : r.headers[k][1] = <<name>>}
        IN IF S = {} THEN none ELSE r.headers[CHOOSE k \in S : TRUE][2][1]
  IN Msg("peer", r.kind, IF r.kind = "req" THEN r.method ELSE r.request_method,
         CASE r.code = "200" -> 200 [] r.code = "180" -> 180 [] r.code = "404" -> 404
           [] r.code = "299" -> 299 [] OTHER -> 0,
         Get("Call-ID", NoId), Get("From", Absent), Get("To", Absent), 1,
         IF r.body = <<>> THEN "" ELSE SDP, Get("Contact", Absent),
         IF Get("From", Absent) = Absent THEN NoUser ELSE "user")

\* SIP messages as the constructors build them: requests and responses (one
\* with a status code outside SIPStatusCode), header lists of every order
\* with a Content-Length that is the length of the body, and bodies that are
\* empty, one line, two lines, and a line with its line break
Messages ==
  LET Via == <<<<"Via">>, <<"SIP/2.0/UDP", " ", "h">>>>
      To == <<<<"To">>, <<"<sip:bob@h>;tag=tb">>>>
      Cseq == <<<<"CSeq">>, <<"1", " ", "INVITE">>>>
      Length(b) == <<<<"Content-Length">>,
                     <<CASE b = <<>> -> "0" [] b = <<"a">> -> "1"
                         [] b = <<"a", CRLF>> -> "3" [] OTHER -> "4">>>>
      Starts == {[kind |-> "req", method |-> x, uri |-> <<"sip:bob@h">>, code |-> "",
                  reason |-> <<>>, request_method |-> ""] : x \in {"INVITE", "BYE"}}
                \cup {[kind |-> "resp", method |-> "", uri |-> <<>>, code |-> "200",
                       reason |-> <<"OK">>, request_method |-> "INVITE"],
                      [kind |-> "resp", method |-> "", uri |-> <<>>, code |-> "404",
                       reason |-> <<"Not", " ", "Found">>, request_method |-> "INVITE"],
                      [kind |-> "resp", method |-> "", uri |-> <<>>, code |-> "299",
                       reason |-> <<"Fine">>, request_method |-> "INVITE"]}
      Bodies == {<<>>, <<"a">>, <<"a", CRLF, "b">>, <<"a", CRLF>>}
      Lists(b) == {<<>>, <<Via>>, <<Via, To>>, <<To, Via>>, <<Via, Cseq, Length(b)>>,
                   <<Length(b), Cseq>>}
  IN UNION {{[kind |-> x.kind, method |-> x.method, uri |-> x.uri, code |-> x.code,
              reason |-> x.reason, request_method |-> x.request_method,
              headers |-> h, body |-> b] : h \in Lists(b), x \in Starts} : b \in Bodies}

\* text = m.to_string()
WireSerialize ==
  /\ job.codec = "sip"
  /\ job.stage = "new"
  /\ job' = [job EXCEPT !.stage = "text", !.text = SIPMessage_to_string(job.p)]
  /\ UNCHANGED <<cvars, svars, now, net, ovars, lvars, rtp, sent, ctx>>

\* SIPParser.parse(text)
WireParse ==
  /\ job.codec \in {"sip", "fold"}
  /\ job.stage = "text"
  /\ job' = [job EXCEPT !.stage = "parsed", !.q = SIPParser_parse(job.text)]
  /\ UNCHANGED <<cvars, svars, now, net, ovars, lvars, rtp, sent, ctx>>

\* text = parsed.to_string(), for a text that parsed
WireRewrite ==
  /\ job.codec \in {"sip", "fold"}
  /\ job.stage = "parsed"
  /\ job.q.kind \in {"req", "resp"}
  /\ job' = [job EXCEPT !.stage = "written", !.text = SIPMessage_to_string(job.q)]
  /\ UNCHANGED <<cvars, svars, now, net, ovars, lvars, rtp, sent, ctx>>

\* header sections of one to three lines: header lines that repeat a name, and
\* continuation lines, which start with a blank or a tab
Folded ==
  LET H(name, value) == [ws |-> "", name |-> <<name>>, value |-> <<value>>]
      K(ws, value) == [ws |-> ws, name |-> <<>>, value |-> <<value>>]
      Hs == {H("Via", "a"), H("Via", "b"), H("To", "t")}
      Ls == Hs \cup {K(" ", "c"), K("\t", "d")}
  IN {<<x>> : x \in Hs} \cup {<<x, y>> : x \in Hs, y \in Ls}
       \cup {<<x, y, z>> : x \in Hs, y \in Ls, z \in Ls}

\* the datagrams a receive loop may be given: a REGISTER, an OPTIONS, an INVITE,
\* a BYE and a 200 OK as to_string writes them, and texts that are no SIP message: nothing,
\* white space, one word, a request line with the method FOO, with a method in
\* lower case, with another version, and a status line with a word for a code
Datagrams ==
  LET H(name, value) == <<<<name>>, <<value>>>>
      Request(method) ==
        [kind |-> "req", method |-> method, uri |-> <<"sip:h">>, code |-> "",
         reason |-> <<>>, request_method |-> "",
         headers |-> <<H("From", "ta"), H("To", NoTag), H("Call-ID", RegId)>>,
         body |-> <<>>]
  IN {SIPMessage_to_string(Request("REGISTER")), SIPMessage_to_string(Request("OPTIONS")),
      SIPMessage_to_string([Request("INVITE") EXCEPT
                              !.headers = <<H("From", "ta"), H("To", NoTag),
                                            H("Call-ID", "c1")>>,
                              !.body = <<"a">>]),
      SIPMessage_to_string([Request("BYE") EXCEPT
                              !.headers = <<H("From", "ta"), H("To", "tb"),
                                            H("Call-ID", "c1")>>]),
      SIPMessage_to_string([Request("") EXCEPT !.kind = "resp", !.code = "200",
                                              !.reason = <<"OK">>]),
      SIPMessage_to_string(Request("FOO")),
      <<>>, <<" ", CRLF>>, <<"garbage">>,
      <<"invite", " ", "sip:h", " ", "SIP/2.0", CRLF, CRLF>>,
      <<"INVITE", " ", "sip:h", " ", "SIP/3.0", CRLF, CRLF>>,
      <<"SIP/2.0", " ", "OK", " ", "OK", CRLF, CRLF>>}

\* what SIPParser.parse makes of the datagrams
Parses == {SIPParser_parse(d) : d \in Datagrams}

\* one turn of SIPClient._receive_loop: recvfrom, parse, _handle_message; a
\* text that parse returns None for is logged, a ValueError of parse is caught
\* and logged, and the loop goes on
ClientDatagram ==
  /\ cRunning
  /\ cseq < MaxCseq
  /\ \E r \in Parses :
          IF r.kind \in {"none", "raise"}
          THEN /\ ClientUpd(cRunning, cObjs, cTab, cseq, registered, cTimers)
               /\ Observe("c_drop", [NoMsg EXCEPT !.kind = r.kind], NoObj, <<>>, <<>>)
          ELSE ClientRoom(AsMsg(r), 1) /\ Client_handle_message(AsMsg(r), "ta")
  /\ UNCHANGED <<svars, now, net>>

\* one turn of SIPServer._receive_loop
ServerDatagram ==
  /\ sRunning
  /\ \E r \in Parses :
          IF r.kind \in {"none", "raise"}
          THEN /\ ServerUpd(sRunning, sObjs, sTab, sTimers, regUsers)
               /\ Observe("s_drop", [NoMsg EXCEPT !.kind = r.kind], NoCall, <<>>, <<>>)
          ELSE ServerRoom(AsMsg(r), 1) /\ Server_handle_message(AsMsg(r), "tb")
  /\ UNCHANGED <<cvars, now, net>>

\* ------------------------------------------------------------ SIP URIs
\* A URI is a sequence of tokens: the scheme, ":", "@", ";", "=", words, and
\* the decimal digits of a port, one token each.
\* build_sip_uri(user, host, port, scheme, params = None)
build_sip_uri(user, host, port, scheme) ==
  LET Digit(d) == <<"0", "1", "2", "3", "4", "5", "6", "7", "8", "9">>[d + 1]
      RECURSIVE Str(_)
      Str(n) == IF n < 10 THEN <<Digit(n)>> ELSE Str(n \div 10) \o <<Digit(n % 10)>>
  IN <<scheme, ":">>
       \o (IF user \notin {None, ""} THEN <<user, "@">> ELSE <<>>)
       \o <<host>>
       \o (IF port # 5060 THEN <<":">> \o Str(port) ELSE <<>>)

\* parse_sip_uri(uri): [kind |-> "none"] for None, "raise" for the ValueError of
\* int(); the user None is the one token None
parse_sip_uri(uri) ==
  LET Digits == <<"0", "1", "2", "3", "4", "5", "6", "7", "8", "9">>
      Value(d) == (CHOOSE k \in 1..10 : Digits[k] = d) - 1
      RECURSIVE ToInt(_)
      ToInt(t) == IF Len(t) = 1 THEN Value(t[1])
                  ELSE 10 * ToInt(SubSeq(t, 1, Len(t) - 1)) + Value(t[Len(t)])
      First(t, c) == LET S == {k \in 1..Len(t) : t[k] = c}
                     IN IF S = {} THEN 0 ELSE CHOOSE k \in S : \A j \in S : k <= j
      result(kind, scheme, user, host, port, params) ==
        [kind |-> kind, scheme |-> scheme, user |-> user, host |-> host, port |-> port,
         params |-> params]
      RECURSIVE Params(_)
      Params(t) ==
        LET semi == First(t, ";")
            part == IF semi = 0 THEN t ELSE SubSeq(t, 1, semi - 1)
            eq == First(part, "=")
            this == IF eq = 0 THEN {}
                    ELSE {<<SubSeq(part, 1, eq - 1), SubSeq(part, eq + 1, Len(part))>>}
        IN IF semi = 0 THEN this ELSE this \cup Params(SubSeq(t, semi + 1, Len(t)))
  IN IF Len(uri) < 2 \/ uri[1] \notin {"sip", "sips"} \/ uri[2] # ":"
     THEN result("none", "", <<>>, <<>>, 0, {})
     ELSE LET scheme == uri[1]
              uri_part == SubSeq(uri, 3, Len(uri))
              at == First(uri_part, "@")
              user_part == IF at = 0 THEN <<None>> ELSE SubSeq(uri_part, 1, at - 1)
              host_part == SubSeq(uri_part, at + 1, Len(uri_part))
              colon == First(host_part, ":")
              digits == SubSeq(host_part, colon + 1, Len(host_part))
              semi == First(host_part, ";")
          IN IF colon # 0 /\ (digits = <<>> \/ \E k \in 1..Len(digits) :
                                                 \A d \in 1..10 : Digits[d] # digits[k])
             THEN result("raise", "", <<>>, <<>>, 0, {})
             ELSE result("uri", scheme, user_part,
                         IF colon # 0 THEN SubSeq(host_part, 1, colon - 1) ELSE host_part,
                         IF colon # 0 THEN ToInt(digits)
                         ELSE IF scheme = "sip" THEN 5060 ELSE 5061,
                         IF semi = 0 THEN {}
                         ELSE Params(SubSeq(host_part, semi + 1, Len(host_part))))

\* uri = build_sip_uri(user, host, port, scheme)
UriBuild ==
  /\ job.codec = "uri"
  /\ job.stage = "new"
  /\ job' = [job EXCEPT !.stage = "text",
                        !.text = build_sip_uri(job.p.user, job.p.host, job.p.port,
                                               job.p.scheme)]
  /\ UNCHANGED <<cvars, svars, now, net, ovars, lvars, rtp, sent, ctx>>

\* parse_sip_uri(uri)
UriParse ==
  /\ job.codec = "uri"
  /\ job.stage = "text"
  /\ job' = [job EXCEPT !.stage = "parsed", !.q = parse_sip_uri(job.text)]
  /\ UNCHANGED <<cvars, svars, now, net, ovars, lvars, rtp, sent, ctx>>

\* ------------------------------------------------------------ SDP
\* An SDP text is a sequence of tokens: words, the blank " ", the line feed
\* "\n" and the line break "\r\n".
\* SIPClient._generate_sdp_offer: the lines of the triple-quoted template, each
\* ended by the line feed of the source file
generate_sdp_offer(local_ip) ==
  <<"v=0", "\n",
    "o=-", " ", "0", " ", "0", " ", "IN", " ", "IP4", " ", local_ip, "\n",
    "s=SIP", " ", "Call", "\n",
    "c=IN", " ", "IP4", " ", local_ip, "\n",
    "t=0", " ", "0", "\n",
    "m=audio", " ", "10000", " ", "RTP/AVP", " ", "0", " ", "8", "\n",
    "a=rtpmap:0", " ", "PCMU/8000", "\n",
    "a=rtpmap:8", " ", "PCMA/8000", "\n",
    "a=sendrecv", "\n">>

\* SIPServer._generate_sdp_answer: the same template
generate_sdp_answer(local_ip) == generate_sdp_offer(local_ip)

\* _parse_sdp_for_rtp(sdp, call) of SIPClient and of SIPServer: the call's
\* remote_rtp_ip and remote_rtp_port afterwards; kind "raise" for the IndexError
\* of line.split()[2]
parse_sdp_for_rtp(sdp, call) ==
  LET White == {" ", "\n", "\t"}
      Ports == [w \in {"10000", "20000"} |-> IF w = "10000" THEN 10000 ELSE 20000]
      First(t) == LET S == {k \in 1..Len(t) : t[k] = CRLF}
                  IN IF S = {} THEN 0 ELSE CHOOSE k \in S : \A j \in S : k <= j
      split(line) == SelectSeq(line, LAMBDA w : w \notin White)
      startswith(line, prefix) ==
        Len(line) >= Len(prefix) /\ SubSeq(line, 1, Len(prefix)) = prefix
      Line(c, line) ==
        IF c.kind = "raise" THEN c
        ELSE IF startswith(line, <<"c=IN", " ", "IP4", " ">>)
        THEN IF Len(split(line)) < 3 THEN [c EXCEPT !.kind = "raise"]
             ELSE [c EXCEPT !.remote_rtp_ip = split(line)[3]]
        ELSE IF startswith(line, <<"m=audio", " ">>)
                /\ Len(split(line)) > 1 /\ split(line)[2] \in DOMAIN Ports
        THEN [c EXCEPT !.remote_rtp_port = Ports[split(line)[2]]]
        ELSE c
      RECURSIVE Lines(_, _)
      Lines(t, c) ==
        IF First(t) = 0 THEN Line(c, t)
        ELSE Lines(SubSeq(t, First(t) + 1, Len(t)), Line(c, SubSeq(t, 1, First(t) - 1)))
  IN Lines(sdp, call)

\* sdp = _generate_sdp_offer(local_ip) or _generate_sdp_answer(call)
SdpGenerate ==
  /\ job.codec = "sdp"
  /\ job.stage = "new"
  /\ job' = [job EXCEPT !.stage = "text",
                        !.text = IF job.p.by = "client" THEN generate_sdp_offer(job.p.ip)
                                 ELSE generate_sdp_answer(job.p.ip)]
  /\ UNCHANGED <<cvars, svars, now, net, ovars, lvars, rtp, sent, ctx>>

\* _parse_sdp_for_rtp(body, call) on a dialog whose RTP fields are None yet (the
\* port None is 0)
SdpParse ==
  /\ job.codec = "sdp"
  /\ job.stage = "text"
  /\ job' = [job EXCEPT !.stage = "parsed",
                        !.q = parse_sdp_for_rtp(job.text,
                                [kind |-> "call", remote_rtp_ip |-> None,
                                 remote_rtp_port |-> 0])]
  /\ UNCHANGED <<cvars, svars, now, net, ovars, lvars, rtp, sent, ctx>>

\* an RTPPacket to pack and unpack, a SIP message to write and parse, a header
\* section to parse and write, a URI to build and parse, or an SDP text to
\* generate and parse
InitCodec ==
  /\ InitAll(FALSE, FALSE, TRUE)
  /\ rtp = RtpNew
  /\ \/ \E x \in Packets :
          job = [codec |-> "rtp", stage |-> "new", p |-> x, wire |-> <<>>, cut |-> 0,
                 ok |-> FALSE, q |-> x]
     \/ \E m \in Messages :
          job = [codec |-> "sip", stage |-> "new", p |-> m, text |-> <<>>, q |-> m]
     \/ \E lines \in Folded, start \in {<<"INVITE", " ", "sip:bob@h", " ", "SIP/2.0">>,
                                         <<"SIP/2.0", " ", "200", " ", "OK">>} :
          LET RECURSIVE Text(_)
              Text(ls) ==
                IF ls = <<>> THEN <<CRLF, CRLF>>
                ELSE <<CRLF>>
                     \o (IF Head(ls).ws # "" THEN <<Head(ls).ws>> \o Head(ls).value
                         ELSE Head(ls).name \o <<":", " ">> \o Head(ls).value)
                     \o Text(Tail(ls))
          IN job = [codec |-> "fold", stage |-> "text", p |-> lines,
                    text |-> start \o Text(lines), q |-> lines]
     \/ \E scheme \in {"sip", "sips"}, user \in {None, "u"}, host \in {"h", "localhost"},
           port \in {0, 5060, 5061, 8080, 65535} :
          job = [codec |-> "uri", stage |-> "new",
                 p |-> [scheme |-> scheme, user |-> user, host |-> host, port |-> port],
                 text |-> <<>>, q |-> <<>>]
     \/ \E uri \in {<<"sip", ":", "u", "@", "h">>, <<"sips", ":", "u", "@", "h">>,
                     <<"sips", ":", "h">>, <<"tel", ":", "1">>, <<"sip", ":", "h", ":">>,
                     <<"sip", ":", "h", ":", "5", "0", "6", "1", ";", "lr">>,
                     <<"sip", ":", "h", ";", "transport", "=", "udp", ";", "lr">>} :
          job = [codec |-> "uri", stage |-> "text", p |-> <<>>, text |-> uri, q |-> <<>>]
     \/ \E by \in {"client", "server"}, ip \in {"10.0.0.1", "10.0.0.2"} :
          job = [codec |-> "sdp", stage |-> "new", p |-> [by |-> by, ip |-> ip],
                 text |-> <<>>, q |-> <<>>]
     \/ \E sdp \in {<<"v=0", CRLF, "c=IN", " ", "IP4", " ", "10.0.0.3", CRLF,
                       "m=audio", " ", "20000", " ", "RTP/AVP", " ", "0", CRLF>>,
                     <<"c=IN", " ", "IP4", " ", "10.0.0.3", "\n",
                       "m=audio", " ", "20000", " ", "RTP/AVP", " ", "0", "\n">>,
                     <<"v=0", CRLF, "m=audio", " ", "port", CRLF>>,
                     <<"v=0", CRLF, "c=IN", " ", "IP4", " ", CRLF>>} :
          job = [codec |-> "sdp", stage |-> "text", p |-> [by |-> "peer", ip |-> ""],
                 text |-> sdp, q |-> <<>>]

NextCodec ==
  \/ CodecPack
  \/ CodecUnpack
  \/ WireSerialize
  \/ WireParse
  \/ WireRewrite
  \/ UriBuild
  \/ UriParse
  \/ SdpGenerate
  \/ SdpParse

SpecCodec == InitCodec /\ [][NextCodec]_vars

\* the started endpoints, their receive loops given datagrams of every kind
NextWire ==
  \/ ClientDatagram
  \/ ServerDatagram
  \/ ClientTimerCheck
  \/ ClientTimerAct
  \/ ServerTimerCheck
  \/ ServerTimerAct

SpecWire == InitUp /\ [][NextWire]_vars

\* ------------------------------------------------------------ one dialog, logged
\* the responses a server may send for an INVITE of the client
HistInput ==
  {Resp(code, "INVITE", c, "tb", "") : code \in {100, 180, 183, 404}, c \in CallIds}
  \cup {Resp(200, "INVITE", c, "tb", SDP) : c \in CallIds}
  \cup {Resp(200, "BYE", c, "tb", "") : c \in CallIds}

\* a step of the client's receive loop, the response and the callbacks logged
HistReceive ==
  /\ Len(rxLog) < MaxLog
  /\ \E m \in HistInput :
       /\ ClientRoom(m, MaxObjs)
       /\ Client_handle_message(m, "ta")
       /\ UNCHANGED <<svars, now, net>>

InitHist == InitWith(TRUE, FALSE)

NextHist ==
  \/ MakeCall
  \/ HistReceive
  \/ Tick

SpecHist == InitHist /\ [][NextHist]_vars

\* ------------------------------------------------------------ client and server
\* the datagrams of a sendto sequence
Sent(o) == {o[k] : k \in 1..Len(o)}

\* sendto puts the datagrams of the step on the network
Transmit == net' = net \cup Sent(out')

\* recvfrom takes datagram m off the network, sendto puts the replies on it
Exchange(m) == net' = (net \ {m}) \cup Sent(out')

NetMakeCall ==
  /\ cseq + 1 < MaxCseq
  /\ Len(cObjs) < MaxObjs
  /\ \E c \in CallIds, v \in BOOLEAN, r \in BOOLEAN :
       \E gi \in (IF v THEN Tags ELSE {"ta"}) :
         make_call(c, v, r, "ta", gi) /\ Transmit /\ UNCHANGED <<svars, now>>

\* the client's receive loop takes a datagram addressed to it
ClientDeliver ==
  \E m \in net :
    /\ m.src # "client"
    /\ ClientRoom(m, MaxObjs)
    /\ Client_handle_message(m, "ta")
    /\ Exchange(m)
    /\ UNCHANGED <<svars, now>>

\* the server's receive loop takes a datagram addressed to it
ServerDeliver ==
  \E m \in net : \E g \in TagsFor(m) :
    /\ m.src # "server"
    /\ ServerRoom(m, MaxObjs)
    /\ Server_handle_message(m, g)
    /\ Exchange(m)
    /\ UNCHANGED <<cvars, now>>

NetTimerCheck ==
  \E t \in sTimers : Server_auto_answer_check(t) /\ Transmit /\ UNCHANGED <<cvars, now>>

NetTimerAct ==
  \E t \in sTimers : Server_auto_answer_act(t) /\ Transmit /\ UNCHANGED <<cvars, now>>

\* a BYE from some other peer enters the idle network, for whichever endpoint
\* receives it
StrayInput == {Req("BYE", c, "tb", "ta", "") : c \in CallIds}

Stray ==
  /\ net = {}
  /\ \E m \in StrayInput : net' = {m}
  /\ UNCHANGED <<cvars, svars, now, ovars, lvars, mvars>>

\* both endpoints and stray BYEs
NextPair ==
  \/ NetMakeCall
  \/ ClientDeliver
  \/ ServerDeliver
  \/ NetTimerCheck
  \/ NetTimerAct
  \/ Stray

SpecPair == InitUp /\ [][NextPair]_vars

\* both endpoints and nothing that ends a call; the receive loops and the timer
\* threads are scheduled fairly and the network delivers
NextLive ==
  \/ NetMakeCall
  \/ ClientDeliver
  \/ ServerDeliver
  \/ NetTimerCheck
  \/ NetTimerAct

SpecLive ==
  /\ InitUp
  /\ [][NextLive]_vars
  /\ WF_vars(ClientDeliver)
  /\ WF_vars(ServerDeliver)
  /\ WF_vars(NetTimerCheck)
  /\ WF_vars(NetTimerAct)

\* ------------------------------------------------------------ one Call-ID, reused
\* the requests a peer of the server may send on the one Call-ID c1
ReuseInput ==
  {Req("INVITE", "c1", "ta", NoTag, SDP), Req("OPTIONS", "c1", "ta", NoTag, ""),
   Req("INFO", "c1", "ta", NoTag, "")}
  \cup {Req(method, "c1", "ta", "tb", "") : method \in {"ACK", "BYE", "CANCEL"}}

ReuseReceive ==
  \E m \in ReuseInput : \E g \in TagsFor(m) :
    /\ ServerRoom(m, MaxCalls)
    /\ Server_handle_message(m, g)
    /\ UNCHANGED <<cvars, now, net>>

\* the started server, its peers sending on one Call-ID only
NextReuse ==
  \/ ReuseReceive
  \/ ServerTimerCheck
  \/ ServerTimerAct

SpecReuse == InitUp /\ [][NextReuse]_vars

\* ------------------------------------------------------------ several calls, sent requests kept
\* the datagrams peers may send the client while it makes its calls
CallsInput ==
  {Resp(code, "INVITE", c, "tb", "") : code \in {180, 404}, c \in CallIds}
  \cup {Resp(200, "INVITE", c, "tb", SDP) : c \in CallIds}
  \cup {Resp(200, "REGISTER", RegId, NoTag, ""), Resp(180, "INVITE", NoId, "tb", ""),
        Req("INVITE", "c1", "tb", NoTag, SDP), Req("BYE", "c1", "tb", "ta", "")}

\* net keeps every datagram the client has sent
CallsRegister ==
  /\ cseq < MaxCseq
  /\ \E r \in BOOLEAN : register(r, "ta") /\ Transmit /\ UNCHANGED <<svars, now>>

CallsMakeCall ==
  /\ cseq + 1 < MaxCseq
  /\ Len(cObjs) < MaxCalls
  /\ \E c \in CallIds, v \in BOOLEAN, r \in BOOLEAN :
       make_call(c, v, r, "ta", "ta") /\ Transmit /\ UNCHANGED <<svars, now>>

CallsHangup ==
  /\ cseq < MaxCseq
  /\ \E c \in CallIds : hangup(c) /\ Transmit /\ UNCHANGED <<svars, now>>

CallsReceive ==
  /\ cseq < MaxCseq
  /\ \E m \in CallsInput :
       /\ ClientRoom(m, MaxCalls)
       /\ Client_handle_message(m, "tb")
       /\ Transmit
       /\ UNCHANGED <<svars, now>>

\* the started client, its calls and their peers
NextCalls ==
  \/ CallsRegister
  \/ CallsMakeCall
  \/ CallsHangup
  \/ CallsReceive

SpecCalls == InitUp /\ [][NextCalls]_vars

\* ------------------------------------------------------------ the call service and its client
\* the Call-IDs of the calls table
RecordIds == {db.calls[k].call_id : k \in 1..Len(db.calls)}

\* the datagrams peers may send the service's client
ServiceInput ==
  {Resp(code, "INVITE", c, "tb", "") : code \in {100, 180, 404}, c \in CallIds}
  \cup {Resp(200, "INVITE", c, "tb", SDP) : c \in CallIds}
  \cup {Req("BYE", c, "tb", "ta", "") : c \in CallIds}
  \cup {Resp(200, "REGISTER", RegId, NoTag, "")}

\* CallService._get_or_create_client for an account without a client: a
\* SIPClient is built, started and registered, and kept with the callbacks set;
\* server_host resolves
ServiceClient ==
  /\ db.svc /\ ~db.on
  /\ register(TRUE, "ta") /\ Transmit /\ UNCHANGED <<svars, now>>

\* CallService.initiate_call up to its commits: generate_call_id() gives r, the
\* Call row with r is stored
ServiceInitiateCall ==
  /\ db.on /\ db.pc = "idle"
  /\ \E r \in FreshIds \ RecordIds :
       /\ (FreshIds \ RecordIds) # {r}
       /\ db' = [db EXCEPT !.calls = Append(@, Record(r)), !.pc = "call"]
       /\ last' = [op |-> "initiate_call", msg |-> [NoMsg EXCEPT !.call_id = r],
                   pre |-> NoObj.state]
  /\ out' = <<>>
  /\ cbs' = <<>>
  /\ UNCHANGED <<cvars, svars, now, net, hist, rxLog, cbLog, txLog, mvars>>

\* CallService.initiate_call from 'client.make_call(to_uri)' on; make_call
\* takes its Call-ID from generate_call_id() itself, which gives a value it has
\* given to nobody before
ServiceMakeCall ==
  /\ db.pc = "call"
  /\ cseq + 1 < MaxCseq
  /\ Len(cObjs) < MaxObjs
  /\ \E c \in FreshIds \ RecordIds, v \in BOOLEAN, r \in BOOLEAN :
       make_call(c, v, r, "ta", "ta") /\ Transmit /\ UNCHANGED <<svars, now>>

\* CallService.hangup_call(call_id) for a call_id of the calls table
ServiceHangupCall ==
  /\ db.on /\ db.pc = "idle"
  /\ cseq < MaxCseq
  /\ \E c \in RecordIds : hangup(c) /\ Transmit /\ UNCHANGED <<svars, now>>

\* the receive loop of the service's client
ServiceReceive ==
  /\ db.on
  /\ cseq < MaxCseq
  /\ \E m \in ServiceInput :
       /\ Client_handle_message(m, "tb")
       /\ Transmit
       /\ UNCHANGED <<svars, now>>

\* one CallService, its client and the client's peers
NextService ==
  \/ ServiceClient
  \/ ServiceInitiateCall
  \/ ServiceMakeCall
  \/ ServiceHangupCall
  \/ ServiceReceive

SpecService == InitFor(FALSE, FALSE, FALSE, NewService) /\ [][NextService]_vars

\* ------------------------------------------------------------ requests composed concurrently
\* The client holds no lock. An operation reads self.cseq into the request it
\* composes, and later runs 'self.cseq += 1', a load and a store of the
\* attribute; other contexts run between any two of these.
RaceObserve(t, c, op, m, pre, o, callbacks) ==
  /\ ctx' = [ctx EXCEPT ![t] = c]
  /\ out' = o
  /\ cbs' = callbacks
  /\ last' = [op |-> op, msg |-> m, pre |-> pre.state]
  /\ Transmit
  /\ UNCHANGED <<svars, now, lvars, rtp, sent, job>>

\* the operation of context t up to the request composed with cseq = self.cseq:
\* register, make_call (registered), hangup of a dialog of the table, and
\* _handle_response of a 200 OK for INVITE up to the ACK of _send_ack
RaceCompose(t) ==
  /\ cRunning
  /\ ctx[t].pc = "idle"
  /\ ctx[t].ops < MaxOps
  /\ cseq < MaxCseq
  /\ LET same == ClientUpd(cRunning, cObjs, cTab, cseq, registered, cTimers)
         go(req) == [pc |-> "composed", req |-> req, load |-> 0, ops |-> ctx[t].ops + 1]
     IN IF t = "recv"
        THEN \E c \in CallIds :
               LET m == Resp(200, "INVITE", c, "tb", SDP)
                   i == CallManager_get_call(c)
                   pre == ClientObj(i)
                   o2 == ClientCall_set_state(
                           [pre EXCEPT !.remote_tag = ExtractTag(m.to),
                                       !.remote_sdp = m.body], CONNECTED, now)
               IN /\ i # 0
                  /\ ClientUpd(cRunning, [cObjs EXCEPT ![i] = o2], cTab, cseq,
                               registered, cTimers)
                  /\ RaceObserve(t, go(AckOf(o2, cseq)), "c_response", m, pre, <<>>, <<>>)
        ELSE \/ same /\ RaceObserve(t, go(create_register(cseq, "ta")), "race_compose",
                                    NoMsg, NoObj, <<>>, <<>>)
             \/ \E c \in FreshIds :
                  /\ registered
                  /\ Len(cObjs) < MaxObjs
                  /\ \A u \in Contexts : ctx[u].req.call_id # c
                  /\ same
                  /\ RaceObserve(t, go(create_invite(c, cseq, "ta")), "race_compose",
                                 NoMsg, NoObj, <<>>, <<>>)
             \/ \E c \in CallIds :
                  LET i == CallManager_get_call(c)
                      o == ClientObj(i)
                  IN /\ i # 0
                     /\ same
                     /\ RaceObserve(t, go(create_bye(c, cseq, OrElse(o.local_tag, cLocalTag),
                                                     OrElse(o.remote_tag, EmptyTag))),
                                    "race_compose", NoMsg, o, <<>>, <<>>)

\* 'self.cseq += 1', the load
RaceLoad(t) ==
  /\ ctx[t].pc = "composed"
  /\ ClientUpd(cRunning, cObjs, cTab, cseq, registered, cTimers)
  /\ RaceObserve(t, [ctx[t] EXCEPT !.pc = "loaded", !.load = cseq], "race_load",
                 NoMsg, NoObj, <<>>, <<>>)

\* 'self.cseq += 1', the store, and the rest of the operation: make_call creates
\* its dialog and sends the INVITE, hangup sends the BYE and sets TERMINATED,
\* register and _send_ack send
RaceStore(t) ==
  LET req == ctx[t].req
      n == ctx[t].load + 1
      i == CallManager_get_call(req.call_id)
      obj == [ClientCall_set_state(ClientCall(req.call_id), INITIATING, now)
                EXCEPT !.local_tag = cLocalTag]
  IN /\ ctx[t].pc = "loaded"
     /\ CASE req.method = "INVITE" ->
               ClientUpd(cRunning, Append(cObjs, obj),
                         [cTab EXCEPT ![req.call_id] = Len(cObjs) + 1], n, registered,
                         cTimers)
          [] req.method = "BYE" /\ i # 0 ->
               ClientUpd(cRunning,
                         [cObjs EXCEPT ![i] = ClientCall_set_state(@, TERMINATED, now)],
                         cTab, n, registered, cTimers)
          [] OTHER -> ClientUpd(cRunning, cObjs, cTab, n, registered, cTimers)
     /\ RaceObserve(t, [Idle EXCEPT !.ops = ctx[t].ops], "race_store", req,
                    ClientObj(i), ClientSend(<<req>>),
                    IF req.method = "ACK"
                    THEN <<Callback("on_call_connected", req.call_id, ClientObj(i).state)>>
                    ELSE <<>>)

\* the receive loop handles the 200 OK for a REGISTER
RaceRegistered ==
  /\ cRunning
  /\ ctx["recv"].pc = "idle"
  /\ Client_handle_response(Resp(200, "REGISTER", RegId, NoTag, ""))
  /\ Transmit
  /\ UNCHANGED <<svars, now>>

\* the started client, its contexts interleaved
NextRace ==
  \/ \E t \in Contexts : RaceCompose(t)
  \/ \E t \in Contexts : RaceLoad(t)
  \/ \E t \in Contexts : RaceStore(t)
  \/ RaceRegistered

SpecRace == InitUp /\ [][NextRace]_vars

\* ------------------------------------------------------------ one call, answered again
\* the answers and requests a peer may send for the client's call, the 200 OK
\* with every kind of To header
RetxInput ==
  {Resp(200, "INVITE", c, t, SDP) : c \in CallIds, t \in {Absent, NoTag, "ta", "tb"}}
  \cup {Resp(code, "INVITE", "c1", "tb", "") : code \in {180, 404}}
  \cup {Req("ACK", "c1", "tb", "ta", "")}

RetxReceive ==
  /\ cseq < MaxCseq
  /\ \E m \in RetxInput :
       Client_handle_message(m, "ta") /\ UNCHANGED <<svars, now, net>>

\* the client, one call and its peer, while time passes
NextRetx ==
  \/ MakeCall
  \/ RetxReceive
  \/ Tick

SpecRetx == Init /\ [][NextRetx]_vars

\* ------------------------------------------------------------ timestamps
\* what a peer may send the client about the call c1
StampClientInput ==
  {Resp(200, "INVITE", "c1", "tb", SDP), Req("BYE", "c1", "tb", "ta", ""),
   Req("ACK", "c1", "tb", "ta", "")}

\* what a peer may send the server about the call c1
StampServerInput ==
  {Req("INVITE", "c1", "ta", NoTag, SDP), Req("ACK", "c1", "ta", "tb", ""),
   Req("BYE", "c1", "ta", "tb", "")}

StampMakeCall ==
  /\ cseq + 1 < MaxCseq
  /\ Len(cObjs) < 1
  /\ make_call("c1", TRUE, TRUE, "ta", "ta")
  /\ UNCHANGED <<svars, now, net>>

StampHangup ==
  /\ cseq < MaxCseq
  /\ hangup("c1")
  /\ UNCHANGED <<svars, now, net>>

StampClientReceive ==
  /\ cseq < MaxCseq
  /\ \E m \in StampClientInput :
       Client_handle_message(m, "ta") /\ UNCHANGED <<svars, now, net>>

StampServerReceive ==
  \E m \in StampServerInput :
    /\ ServerRoom(m, 1)
    /\ Server_handle_message(m, "tb")
    /\ UNCHANGED <<cvars, now, net>>

\* a call of the client and the calls of the server on one Call-ID, each with
\* its peer, in every order of hangup, BYE, ACK and 200 OK, while time passes
NextStamp ==
  \/ StampMakeCall
  \/ StampHangup
  \/ StampClientReceive
  \/ StampServerReceive
  \/ ServerTimerCheck
  \/ ServerTimerAct
  \/ Tick

SpecStamp == InitUp /\ [][NextStamp]_vars

\* ------------------------------------------------------------ the registrar
\* the REGISTER requests the server may receive: two usernames, from two source
\* addresses, with one of two Contact headers or none; and REGISTERs without a
\* From or a To header or without a user part in the From URI
RegInput ==
  {Msg(a, "req", "REGISTER", 0, RegId, "ta", NoTag, 1, "", c, u) :
     a \in {"peer", "peer2"}, c \in {Absent, "sip:a", "sip:b"}, u \in Users}
  \cup {Msg("peer", "req", "REGISTER", 0, RegId, Absent, NoTag, 1, "", "sip:a", NoUser),
        Msg("peer", "req", "REGISTER", 0, RegId, "ta", Absent, 1, "", "sip:a", "user"),
        Msg("peer", "req", "REGISTER", 0, RegId, "ta", NoTag, 1, "", "sip:a", NoUser)}

RegReceive ==
  \E m \in RegInput :
    /\ Server_handle_message(m, "tb")
    /\ UNCHANGED <<cvars, now, net>>

\* time.time() moves on by a second, or by the lifetime of a registration;
\* its readings are 1..MaxTime+1 and Expires+1..Expires+MaxTime+1
RegTick ==
  /\ \E d \in {1, Expires} :
       /\ IF d = 1 THEN now % Expires <= MaxTime ELSE now <= MaxTime
       /\ now' = now + d
  /\ UNCHANGED <<cvars, svars, net, ovars, lvars, mvars>>

\* the started server as a registrar
NextReg ==
  \/ RegReceive
  \/ RegTick

SpecReg == InitUp /\ [][NextReg]_vars

\* ------------------------------------------------------------ start and stop
LifeClientStart == cLoops < MaxLoops /\ ClientStart

LifeServerStart == sLoops < MaxLoops /\ ServerStart

\* register() on whatever state the client is in
LifeRegister == cLoops < MaxLoops /\ Register

\* both endpoints started and stopped in any order
NextLife ==
  \/ LifeClientStart
  \/ ClientStop
  \/ ClientLoopExit
  \/ LifeRegister
  \/ LifeServerStart
  \/ ServerStop
  \/ ServerLoopExit

SpecLife == Init /\ [][NextLife]_vars

\* ------------------------------------------------------------ stop from every context
\* the receive loop of the running client handles a datagram about the call c1
StopReceive ==
  /\ cRunning
  /\ StampClientReceive

\* a callback that the receive loop has just invoked calls stop(): running is
\* False, the socket closed, and receive_thread.join is the join of the current
\* thread, which raises RuntimeError; the loop's 'except Exception' logs it
ClientStopInCallback ==
  /\ cRunning
  /\ last.op \in {"c_response", "c_invite", "c_bye"}
  /\ cbs # <<>>
  /\ ClientUpd(FALSE, cObjs, cTab, cseq, registered, cTimers)
  /\ Observe("c_stop_raised", NoMsg, NoObj, <<>>, <<>>)
  /\ UNCHANGED <<svars, now, net>>

\* stop() of another context has closed the socket under a thread blocked in
\* recvfrom: the call still returns the next datagram sent to the port, and the
\* thread handles it before it tests 'self.running and self.socket' again
ClientLateDatagram ==
  /\ ~cRunning
  /\ cLoops > 0
  /\ last.op = "c_stop"
  /\ cseq < MaxCseq
  /\ \E m \in StampClientInput :
       /\ IF m.kind = "req" THEN Client_handle_request(m, "ta")
          ELSE Client_handle_response(m)
       /\ UNCHANGED <<svars, now, net>>

StopMakeCall == cLoops < MaxLoops /\ StampMakeCall

\* the started client, one call, stop() from a user context and from a callback
NextStop ==
  \/ StopMakeCall
  \/ StampHangup
  \/ StopReceive
  \/ ClientStop
  \/ ClientStopInCallback
  \/ ClientLateDatagram
  \/ ClientLoopExit

SpecStop == InitUp /\ [][NextStop]_vars

\* ------------------------------------------------------------ properties
Terminal == {TERMINATED, FAILED}
PreConnected == {INITIATING, TRYING, RINGING}

\* the place of a state in INITIATING < TRYING < RINGING < CONNECTED < TERMINATED,
\* 0 for a state outside that order
Rank(st) ==
  CASE st = INITIATING -> 1
    [] st = TRYING -> 2
    [] st = RINGING -> 3
    [] st = CONNECTED -> 4
    [] st = TERMINATED -> 5
    [] OTHER -> 0

\* the tag parameter a To header value carries, None when it carries none
ToTagOf(h) == IF h \in Tags THEN h ELSE None

\* the step just taken handled a 200 OK for INVITE whose Call-ID names a dialog
\* that was in INITIATING, TRYING or RINGING
OkForPreConnected ==
  /\ last'.op = "c_response"
  /\ last'.msg.code = 200
  /\ last'.msg.method = "INVITE"
  /\ last'.msg.call_id \in CallIds
  /\ cTab[last'.msg.call_id] # 0
  /\ cObjs[cTab[last'.msg.call_id]].state \in PreConnected

\* what C4 promises of that step, for the To tag tg
OkEffects(tg) ==
  LET m == last'.msg
      d == cObjs'[cTab[m.call_id]]
  IN /\ d.state = CONNECTED
     /\ d.remote_tag = tg
     /\ d.remote_sdp = m.body
     /\ d.connected_at # 0
     /\ Len(out') = 1
     /\ out'[1].method = "ACK"
     /\ out'[1].call_id = m.call_id
     /\ out'[1].to = tg
     /\ cbs' = <<Callback("on_call_connected", m.call_id, CONNECTED)>>

\* C1: on the client and on the server, a dialog whose state is TERMINATED or
\* FAILED keeps that state in every later step, whatever response, request,
\* hangup() or auto-answer timer the step handles.
C1_TerminalIsFinal ==
  [][/\ \A i \in 1..Len(cObjs) :
          cObjs[i].state \in Terminal => cObjs'[i].state = cObjs[i].state
     /\ \A i \in 1..Len(sObjs) :
          sObjs[i].state \in Terminal => sObjs'[i].state = sObjs[i].state]_vars

\* C2: on the client and on the server, no step lowers a dialog's state in the
\* order INITIATING < TRYING < RINGING < CONNECTED < TERMINATED.
C2_NeverBackwards ==
  [][/\ \A i \in 1..Len(cObjs) :
          Rank(cObjs[i].state) > 0 /\ Rank(cObjs'[i].state) > 0
            => Rank(cObjs'[i].state) >= Rank(cObjs[i].state)
     /\ \A i \in 1..Len(sObjs) :
          Rank(sObjs[i].state) > 0 /\ Rank(sObjs'[i].state) > 0
            => Rank(sObjs'[i].state) >= Rank(sObjs[i].state)]_vars

\* C3: an INVITE with a fresh Call-ID and with Call-ID, From and To present is
\* answered 100 then 180 with the new dialog left RINGING, and the auto-answer
\* sends its 200 OK with SDP body and Contact only for a dialog that is RINGING.
C3_InviteAnswered ==
  /\ (/\ last.op = "s_invite"
      /\ last.pre = "NONE"
      /\ last.msg.call_id \in CallIds
      /\ last.msg.from # Absent
      /\ last.msg.to # Absent)
       => /\ Len(out) = 2
          /\ out[1].code = 100
          /\ out[2].code = 180
          /\ sObjs[sTab[last.msg.call_id]].state = RINGING
  /\ last.op = "s_timer_act"
       => /\ last.pre = RINGING
          /\ Len(out) = 1
          /\ out[1].code = 200
          /\ out[1].body = SDP
          /\ out[1].contact # Absent

Announced(m) ==
  IF m.code = 100 THEN [name |-> "on_call_trying", state |-> TRYING]
  ELSE IF m.code = 180 THEN [name |-> "on_call_ringing", state |-> RINGING]
  ELSE IF m.code = 200 /\ m.method = "INVITE"
  THEN [name |-> "on_call_connected", state |-> CONNECTED]
  ELSE IF m.code >= 400 THEN [name |-> "on_call_ended", state |-> FAILED]
  ELSE [name |-> "none", state |-> "none"]

\* the responses handled for dialog c that announce a callback, in wire order
Announcing(c) ==
  SelectSeq(rxLog, LAMBDA m : m.call_id = c /\ Announced(m).name # "none")

\* the callbacks invoked for dialog c, in order
Invoked(c) == SelectSeq(cbLog, LAMBDA x : x.call_id = c)

\* C5: within one outbound dialog the callbacks are invoked in the order their
\* responses were received, one per response, each seeing the dialog in the
\* state it announces; so 100, 180, 200 in that order give on_call_trying,
\* on_call_ringing, on_call_connected once each in that order.
C5_CallbackOrder ==
  \A c \in CallIds :
    /\ Len(Invoked(c)) = Len(Announcing(c))
    /\ \A k \in 1..Len(Invoked(c)) :
         /\ Invoked(c)[k].name = Announced(Announcing(c)[k]).name
         /\ Invoked(c)[k].seen = Announced(Announcing(c)[k]).state

\* 100, 180 and 200 were received in that order for a dialog, nothing else
C5_Witness ==
  \E c \in CallIds :
    /\ Len(rxLog) = 3
    /\ \A k \in 1..3 : rxLog[k].call_id = c
    /\ rxLog[1].code = 100 /\ rxLog[2].code = 180 /\ rxLog[3].code = 200
    /\ Len(cbLog) = 3
    /\ cbLog[3].name = "on_call_connected"

\* make_call has just sent an INVITE for Call-ID c
InviteSent(c) ==
  /\ last.op = "make_call"
  /\ \E k \in 1..Len(out) : out[k].method = "INVITE" /\ out[k].call_id = c

\* the client dialog and the server dialog of Call-ID c are both CONNECTED
BothConnected(c) ==
  /\ cTab[c] # 0 /\ cObjs[cTab[c]].state = CONNECTED
  /\ sTab[c] # 0 /\ sObjs[sTab[c]].state = CONNECTED

C7_HangupConnected ==
  (last.op = "hangup" /\ last.pre = CONNECTED)
    => LET d == cObjs[cTab[last.msg.call_id]]
       IN /\ Len(out) = 1
          /\ out[1].method = "BYE"
          /\ out[1].call_id = last.msg.call_id
          /\ out[1].from = d.local_tag
          /\ out[1].to = d.remote_tag
          /\ d.state = TERMINATED
          /\ d.terminated_at # 0
          /\ \E k \in 1..Len(cbs) :
               cbs[k].name = "on_call_ended" /\ cbs[k].call_id = last.msg.call_id

\* C8: hangup(call_id) with a call_id that names no dialog of the table sends
\* nothing, invokes nothing, and leaves the table, every dialog and the CSeq
\* counter as they were.
C8_HangupUnknown ==
  [][(last'.op = "hangup" /\ cTab[last'.msg.call_id] = 0)
       => /\ out' = <<>>
          /\ cbs' = <<>>
          /\ cTab' = cTab
          /\ cObjs' = cObjs
          /\ cseq' = cseq]_vars

\* hangup was called with an unknown call_id while another dialog is in the table
C8_Witness ==
  /\ last.op = "hangup"
  /\ last.pre = "NONE"
  /\ \E c \in CallIds : c # last.msg.call_id /\ cTab[c] # 0

\* the reply a BYE for a CONNECTED dialog gets: one 200 OK with its Call-ID
ByeReply(o, m) ==
  /\ Len(o) = 1
  /\ o[1].kind = "resp"
  /\ o[1].code = 200
  /\ o[1].method = "BYE"
  /\ o[1].call_id = m.call_id

\* C9: a BYE for the Call-ID of a CONNECTED dialog is answered 200 OK and the
\* dialog becomes TERMINATED with terminated_at set; the server's table no
\* longer holds the Call-ID; the client invokes on_call_ended(call_id) once.
C9_ByeOnConnected ==
  [][LET m == last'.msg
     IN /\ (/\ last'.op = "s_bye"
            /\ m.call_id \in CallIds
            /\ sTab[m.call_id] # 0
            /\ sObjs[sTab[m.call_id]].state = CONNECTED)
             => /\ ByeReply(out', m)
                /\ sObjs'[sTab[m.call_id]].state = TERMINATED
                /\ sObjs'[sTab[m.call_id]].terminated_at # 0
                /\ sTab'[m.call_id] = 0
        /\ (/\ last'.op = "c_bye"
            /\ m.call_id \in CallIds
            /\ cTab[m.call_id] # 0
            /\ cObjs[cTab[m.call_id]].state = CONNECTED)
             => /\ ByeReply(out', m)
                /\ cObjs'[cTab[m.call_id]].state = TERMINATED
                /\ cObjs'[cTab[m.call_id]].terminated_at # 0
                /\ cbs' = <<Callback("on_call_ended", m.call_id, TERMINATED)>>]_vars

\* the client has just handled a BYE for its CONNECTED dialog, after the server
\* handled one for its dialog of the same Call-ID
C9_Witness ==
  /\ last.op = "c_bye"
  /\ last.pre = CONNECTED
  /\ sTab[last.msg.call_id] = 0
  /\ \E i \in 1..Len(sObjs) :
       /\ sObjs[i].call_id = last.msg.call_id
       /\ sObjs[i].state = TERMINATED
       /\ sObjs[i].terminated_at # 0

\* C10: a BYE whose Call-ID names no dialog of the receiving endpoint, server or
\* client, is answered 481.
C10_UnknownBye ==
  (last.op \in {"s_bye", "c_bye"} /\ last.pre = "NONE")
    => /\ Len(out) = 1
       /\ out[1].code = 481
       /\ out[1].call_id = last.msg.call_id

\* ------------------------------------------------------------ C11
\* a dialog object of the server with this Call-ID has reached TERMINATED
ServerTerminated(call_id) ==
  \E i \in 1..Len(sObjs) :
    sObjs[i].call_id = call_id /\ sObjs[i].state = TERMINATED

\* C11: once a server dialog has reached TERMINATED, every later request with
\* its Call-ID, a new INVITE included, is answered with 481 alone, creates no
\* dialog and leaves the old one as it is (table and objects unchanged).
C11_TerminatedRejects ==
  [][(/\ last'.msg.kind = "req"
      /\ last'.op \in {"s_invite", "s_ack", "s_bye", "s_cancel", "s_options",
                       "s_unhandled", "s_register"}
      /\ ServerTerminated(last'.msg.call_id))
     => (/\ Len(out') = 1 /\ out'[1].code = 481
         /\ sTab' = sTab
         /\ sObjs' = sObjs)]_vars

\* ------------------------------------------------------------ C12
\* the newest dialog object the server created for this Call-ID (0: none); the
\* table entry of a Call-ID, while there is one, is that object
NewestCall(call_id) ==
  LET js == {j \in 1..Len(sObjs) : sObjs[j].call_id = call_id}
  IN IF js = {} THEN 0 ELSE CHOOSE j \in js : \A k \in js : k <= j

\* the step just taken handled a CANCEL for dialog object i, TRYING or RINGING
\* until then
Cancelled(i) ==
  /\ last.op = "s_cancel"
  /\ last.pre \in {TRYING, RINGING}
  /\ i = NewestCall(last.msg.call_id)

\* the step just taken sent one datagram, a response with this code and method
Replied(code, method) ==
  Len(out) = 1 /\ out[1].code = code /\ out[1].method = method

\* the step is the second half of an auto-answer started for dialog object i:
\* it sends the 200 OK for the INVITE
AutoAnswers(i) ==
  /\ last'.op = "s_timer_act"
  /\ \E t \in sTimers \ sTimers' : t.obj = i

\* C12: a CANCEL for a dialog in TRYING or RINGING is answered 200 OK (to the
\* CANCEL) and leaves the dialog TERMINATED; after it no auto-answer sends a
\* 200 OK for the cancelled INVITE and the dialog does not become CONNECTED
\* (stated for the step that follows the CANCEL).
C12_CancelStopsAutoAnswer ==
  [][\A i \in 1..Len(sObjs) :
       Cancelled(i)
         => /\ Replied(200, "CANCEL")
            /\ sObjs[i].state = TERMINATED
            /\ sObjs'[i].state # CONNECTED
            /\ ~AutoAnswers(i)]_vars

\* ------------------------------------------------------------ C13
\* C13: a response with a code of 400 or more, known or not, for a dialog in
\* INITIATING, TRYING or RINGING leaves it FAILED and invokes on_call_ended;
\* FAILED is entered from those three states only, so such a response leaves a
\* CONNECTED dialog CONNECTED.
C13_FailedOnlyBeforeConnected ==
  [][/\ (/\ last'.op = "c_response"
         /\ last'.msg.code >= 400
         /\ last'.pre \in PreConnected)
        => /\ cObjs'[cTab[last'.msg.call_id]].state = FAILED
           /\ cbs' = <<Callback("on_call_ended", last'.msg.call_id, FAILED)>>
     /\ \A i \in 1..Len(cObjs) :
          (cObjs'[i].state = FAILED /\ cObjs[i].state # FAILED)
            => cObjs[i].state \in PreConnected]_vars

\* ------------------------------------------------------------ C14
\* the heap index the client's table gives for the Call-ID of m (0: no dialog)
Named(m) == IF m.call_id \in CallIds THEN cTab[m.call_id] ELSE 0

Retransmitted200(i) ==
  /\ last'.op = "c_response"
  /\ last'.msg.code = 200
  /\ last'.msg.method = "INVITE"
  /\ i = Named(last'.msg)
  /\ cObjs[i].state = CONNECTED
  /\ (last'.msg.to = Absent \/ ToTagOf(last'.msg.to) = cObjs[i].remote_tag)

NewRequest(x) ==
  x.src = "client" /\ x.kind = "req" /\ x.method \in {"REGISTER", "INVITE", "BYE"}

C17_AckReusesInviteCseq ==
  \A x \in net, y \in net :
    (/\ x.src = "client" /\ x.kind = "req" /\ x.method = "ACK"
     /\ y.src = "client" /\ y.kind = "req" /\ y.method = "INVITE"
     /\ x.call_id = y.call_id)
      => x.num = y.num

\* ------------------------------------------------------------ C18
\* C18: every make_call that returns a call_id returns one no dialog had
\* before, every Call-ID of the table names one dialog, which carries that
\* Call-ID, and a dialog make_call created is among get_active_calls() from
\* its creation on, in every step that does not leave it TERMINATED (stated
\* for the dialogs still INITIATING, which only make_call creates).
C18_MadeCallsStayActive ==
  [][/\ last'.op = "make_call"
          => /\ Len(cObjs') = Len(cObjs) + 1
             /\ \A i \in 1..Len(cObjs) :
                  cObjs[i].call_id # cObjs'[Len(cObjs')].call_id
             /\ Len(cObjs') \in CallManager_get_active_calls'
     /\ \A c \in CallIds : cTab'[c] # 0 => cObjs'[cTab'[c]].call_id = c
     /\ \A i \in CallManager_get_active_calls :
          cObjs[i].state = INITIATING
            => (cObjs'[i].state = TERMINATED \/ i \in CallManager_get_active_calls')]_vars

\* ------------------------------------------------------------ C19
\* C19: a make_call that fails because server_host does not resolve, on a
\* registered client or not, sends no INVITE and leaves no dialog it created
\* in a state other than FAILED.
C19_UnresolvedCallFails ==
  [][last'.op = "make_call_raised"
       => /\ \A k \in 1..Len(out') : out'[k].method # "INVITE"
          /\ \A i \in 1..Len(cObjs') :
               i > Len(cObjs) => cObjs'[i].state = FAILED]_vars

\* ------------------------------------------------------------ C20
\* C20: register() and make_call() on a client that is not running fail and
\* leave it as it was: not running (no socket, no receive loop), nothing sent,
\* no dialog created, CSeq counter unchanged.
C20_NotRunningRejected ==
  [][(/\ ~cRunning
      /\ last'.op \in {"register", "register_raised", "make_call", "make_call_none",
                       "make_call_raised"})
       => /\ ~cRunning'
          /\ out' = <<>>
          /\ cObjs' = cObjs
          /\ cTab' = cTab
          /\ cseq' = cseq]_vars

\* ------------------------------------------------------------ C21
\* C21: start() on a running endpoint leaves the running flag and the receive
\* thread as they are, stop() on a stopped endpoint changes nothing, and after
\* any sequence of start and stop calls each endpoint has at most one receive
\* loop.
C21_OneReceiveLoop ==
  [][/\ (last'.op = "c_start" /\ cRunning) => (cRunning' /\ cLoops' = cLoops)
     /\ (last'.op = "s_start" /\ sRunning) => (sRunning' /\ sLoops' = sLoops)
     /\ (last'.op = "c_stop" /\ ~cRunning) => (~cRunning' /\ cLoops' = cLoops)
     /\ (last'.op = "s_stop" /\ ~sRunning) => (~sRunning' /\ sLoops' = sLoops)
     /\ cLoops' <= 1
     /\ sLoops' <= 1]_vars

\* ------------------------------------------------------------ C22
\* a REGISTER with a From and a To header whose From URI has a user part
Registrable(m) == m.from # Absent /\ m.to # Absent /\ m.user \in Users

\* the registrar entry of the REGISTER m handled at time t
EntryOf(e, m, t) ==
  /\ e.address = m.src
  /\ e.contact = (IF m.contact # Absent THEN m.contact ELSE AddrContact(m.user, m.src))
  /\ e.registered_at = t

\* the step handles a REGISTER
Registers == last'.op = "s_register" /\ now' = now

C23_NoExpiredEntry ==
  \A u \in Users :
    regUsers[u] # NoBinding => now <= regUsers[u].registered_at + regUsers[u].expires

\* ------------------------------------------------------------ C24
\* the timestamps of dialog i of heap objs, unset for a dialog not yet created
StampsOf(objs, i) ==
  IF i <= Len(objs)
  THEN [connected_at |-> objs[i].connected_at, terminated_at |-> objs[i].terminated_at]
  ELSE [connected_at |-> 0, terminated_at |-> 0]

\* between heaps old and new: a timestamp that is set keeps its value, and an
\* unset one is set only by a step that leaves the dialog in its state
StampedOnce(old, new) ==
  \A i \in 1..Len(new) :
    LET a == StampsOf(old, i)
        b == StampsOf(new, i)
    IN /\ a.connected_at # 0 => b.connected_at = a.connected_at
       /\ a.terminated_at # 0 => b.terminated_at = a.terminated_at
       /\ (a.connected_at = 0 /\ b.connected_at # 0) => new[i].state = CONNECTED
       /\ (a.terminated_at = 0 /\ b.terminated_at # 0) => new[i].state = TERMINATED
       /\ new[i].state = CONNECTED => b.connected_at # 0
       /\ new[i].state = TERMINATED => b.terminated_at # 0

\* C24: for every dialog of the client and of the server, connected_at is unset
\* until the dialog first enters CONNECTED and terminated_at until it first
\* enters TERMINATED, and each, once set, keeps its value through every later
\* step.
C24_StampedOnce ==
  [][StampedOnce(cObjs, cObjs') /\ StampedOnce(sObjs, sObjs')]_vars

\* a server dialog connected at time 1 and terminated later has entered
\* CONNECTED again, and a client dialog terminated at time 1 has been through
\* later set_state calls
C24_Witness ==
  /\ last.op = "s_timer_act"
  /\ Len(sObjs) = 1
  /\ sObjs[1].state = CONNECTED
  /\ sObjs[1].connected_at = 1
  /\ sObjs[1].terminated_at > 1
  /\ Len(cObjs) = 1
  /\ cObjs[1].terminated_at = 1
  /\ cObjs[1].connected_at > 1

\* ------------------------------------------------------------ C25
\* C25: in every dialog of the client and of the server in which connected_at
\* and terminated_at are both set, connected_at <= terminated_at.
C25_ConnectedBeforeTerminated ==
  /\ \A i \in 1..Len(cObjs) :
       (cObjs[i].connected_at # 0 /\ cObjs[i].terminated_at # 0)
         => cObjs[i].connected_at <= cObjs[i].terminated_at
  /\ \A i \in 1..Len(sObjs) :
       (sObjs[i].connected_at # 0 /\ sObjs[i].terminated_at # 0)
         => sObjs[i].connected_at <= sObjs[i].terminated_at

\* ------------------------------------------------------------ C26
\* the step is a send_packet call on a running session with a remote
Sends == sent'.n = sent.n + 1 /\ rtp.running /\ rtp.remote

\* C26: each send_packet on a running RTP session with a remote emits exactly
\* one datagram carrying the current sequence number, and then the sequence
\* number is (seq + 1) mod 2^16, 65535 followed by 0, and the timestamp is
\* the old one plus the length of the payload.
C26_OneDatagramPerSend ==
  [][Sends
       => /\ Len(sent'.data) = 1
          /\ RTPPacket_unpack(sent'.data[1]).p.sequence_number = rtp.sequence_number
          /\ rtp'.sequence_number = (rtp.sequence_number + 1) % 65536
          /\ LET sum == rtp.timestamp.lo + Len(sent'.data[1]) - 12
             IN rtp'.timestamp = Wide(rtp.timestamp.hi + sum \div 65536,
                                      sum % 65536)]_vars

\* ------------------------------------------------------------ C27
\* C27: in every reachable state of an RTP session the timestamp is a 32-bit
\* value, in 0..2^32-1.
C27_TimestampIn32Bits ==
  rtp.timestamp.hi \in 0..65535 /\ rtp.timestamp.lo \in 0..65535

Dropped ==
  /\ now' = now
  /\ \/ last'.op \in {"c_drop", "s_drop"}
     \/ last'.msg.method = "FOO"

\* C29: a datagram that does not parse as a SIP message, or whose request line
\* names a method outside the known set (FOO), is dropped: nothing is sent, no
\* dialog, timer or registrar state of the client or the server changes, and
\* both receive loops are running as before, ready for the next datagram.
C29_JunkDropped ==
  [][Dropped
       => /\ out' = <<>>
          /\ cbs' = <<>>
          /\ cvars' = cvars
          /\ svars' = svars
          /\ cRunning' /\ cLoops' = 1
          /\ sRunning' /\ sLoops' = 1]_vars

\* the server, holding a registration and a connected call, has just dropped
\* the FOO request, while the client holds a call
C29_Witness ==
  /\ last.op = "s_drop"
  /\ last.msg.kind = "raise"
  /\ \E u \in Users : regUsers[u] # NoBinding
  /\ Len(sObjs) = 1
  /\ sObjs[1].state = CONNECTED
  /\ Len(cObjs) = 1
  /\ sRunning
  /\ cRunning

\* the client has dropped a text that parse returns None for
C29_WitnessNone ==
  /\ last.op = "c_drop"
  /\ last.msg.kind = "none"
  /\ Len(cObjs) = 1

\* ------------------------------------------------------------ C30
\* C30: for every well-formed SIP request or response m, with any header list
\* and an empty or non-empty body, SIPParser.parse(m.to_string()) is a message
\* of the same kind with the same method and request URI or the same status
\* code, the same headers in the same order and the same body.
C30_RoundTrip ==
  (job.codec = "sip" /\ job.stage = "parsed")
    => /\ job.q.kind = job.p.kind
       /\ job.p.kind = "req" => (job.q.method = job.p.method /\ job.q.uri = job.p.uri)
       /\ job.p.kind = "resp" => job.q.code = job.p.code
       /\ job.q.headers = job.p.headers
       /\ job.q.body = job.p.body

\* ------------------------------------------------------------ C31
\* the one value per name of a header section: a continuation line goes to the
\* value of the header line before it after one blank, a header line whose name
\* was seen goes to that name's value after ", "
Unfolded(lines) ==
  LET RECURSIVE Fold(_, _, _)
      Fold(ls, h, name) ==
        IF ls = <<>> THEN h
        ELSE LET l == Head(ls)
                 n == IF l.ws # "" THEN name ELSE l.name
                 sep == IF l.ws # "" THEN <<" ">> ELSE <<",", " ">>
             IN Fold(Tail(ls),
                     IF \E k \in 1..Len(h) : h[k][1] = n
                     THEN [k \in 1..Len(h) |->
                             IF h[k][1] = n THEN <<n, h[k][2] \o sep \o l.value>>
                             ELSE h[k]]
                     ELSE Append(h, <<n, l.value>>),
                     n)
  IN Fold(lines, <<>>, <<>>)

\* C31: a message whose headers are followed by continuation lines and whose
\* header names repeat parses to one value per name, each continuation line
\* appended to the preceding header's value after a single space, repeated
\* occurrences joined with ", " in order of appearance; the text written from
\* the parsed message has one line per name.
C31_FoldedHeaders ==
  (job.codec = "fold" /\ job.stage \in {"parsed", "written"})
    => /\ job.q.kind \in {"req", "resp"}
       /\ job.q.headers = Unfolded(job.p)
       /\ job.stage = "written"
            => Len(SelectSeq(job.text, LAMBDA t : t = CRLF))
                 = 2 + Cardinality({job.p[k].name : k \in 1..Len(job.p)} \ {<<>>})

\* ------------------------------------------------------------ C32
\* C32: for every scheme in {sip, sips}, user, host and port,
\* parse_sip_uri(build_sip_uri(user, host, port, scheme)) returns the same
\* scheme, user, host and port; a URI without a port parses to port 5060 for
\* sip and 5061 for sips; build_sip_uri('u', 'h', 5061) is 'sip:u@h:5061' and
\* build_sip_uri(host = 'h') is 'sip:h'.
C32_UriRoundTrip ==
  job.codec = "uri"
    => /\ (job.stage = "parsed" /\ job.p # <<>>)
            => /\ job.q.kind = "uri"
               /\ job.q.scheme = job.p.scheme
               /\ job.q.user = <<job.p.user>>
               /\ job.q.host = <<job.p.host>>
               /\ job.q.port = job.p.port
       /\ (job.stage = "parsed" /\ job.text = <<"sip", ":", "u", "@", "h">>)
            => job.q.port = 5060
       /\ (job.stage = "parsed" /\ job.text \in {<<"sips", ":", "u", "@", "h">>,
                                                 <<"sips", ":", "h">>})
            => job.q.port = 5061
       /\ (job.stage = "text"
             /\ job.p = [scheme |-> "sip", user |-> "u", host |-> "h", port |-> 5061])
            => job.text = <<"sip", ":", "u", "@", "h", ":", "5", "0", "6", "1">>
       /\ (job.stage = "text"
             /\ job.p = [scheme |-> "sip", user |-> None, host |-> "h", port |-> 5060])
            => job.text = <<"sip", ":", "h">>

\* ------------------------------------------------------------ C33
\* C33: under every interleaving of the server's auto-answer timer thread with
\* its receive loop, the second half of _auto_answer_invite (200 OK for the
\* INVITE sent, CONNECTED written) acts only on a dialog that is RINGING: no
\* 200 OK is sent for, and no CONNECTED is written to, a dialog that has left
\* RINGING between the timer's check and its act.
C33_AnswerOnlyWhileRinging ==
  last.op = "s_timer_act" => last.pre = RINGING

\* ------------------------------------------------------------ C34
\* C34: when requests are composed concurrently from several contexts of one
\* client, under every interleaving each new request (REGISTER, INVITE, BYE)
\* sent carries a CSeq number different from that of every other new request
\* of the client, and no increment of the counter is lost: every
\* 'self.cseq += 1' leaves the counter one above what it was.
C34_CseqDistinctUnderRace ==
  [][last'.op = "race_store"
       => /\ cseq' = cseq + 1
          /\ \A k \in 1..Len(out') :
               NewRequest(out'[k])
                 => \A y \in net : NewRequest(y) => y.num # out'[k].num]_vars

\* ------------------------------------------------------------ C35
\* C35: when a dialog takes the SDP of this system's own UA (the answer of the
\* server's 200 OK at the client, the offer of the client's INVITE at the
\* server), its remote_rtp_ip is the address of the c= line and its
\* remote_rtp_port the port of the m=audio line.
C35_OwnSdpGivesRtp ==
  (job.codec = "sdp" /\ job.stage = "parsed" /\ job.p.by \in {"client", "server"})
    => /\ job.q.kind = "call"
       /\ job.q.remote_rtp_ip = job.p.ip
       /\ job.q.remote_rtp_port = 10000

\* ------------------------------------------------------------ C36
\* C36: stop() never raises, whichever context calls it, a callback on the
\* receive context included, and after stop() the receive loop handles no
\* further datagram: no handler of the receive loop runs on a stopped client.
C36_StopIsFinal ==
  [][/\ last'.op # "c_stop_raised"
     /\ ~cRunning => last'.op \notin {"c_response", "c_invite", "c_bye", "c_ack",
                                      "c_unhandled"}]_vars

\* ------------------------------------------------------------ C37
\* C37: every request the client sends within a dialog of its table (the
\* INVITE of make_call, the ACK for its 200 OK, the BYE of hangup) carries as
\* From tag the local_tag stored in that dialog, so all of them carry the
\* same From tag.
C37_OneFromTag ==
  \A k \in 1..Len(out) :
    (/\ last.op \in {"make_call", "c_response", "hangup"}
     /\ out[k].src = "client" /\ out[k].kind = "req"
     /\ out[k].method \in {"INVITE", "ACK", "BYE"}
     /\ CallManager_get_call(out[k].call_id) # 0)
      => out[k].from = Render(ClientObj(CallManager_get_call(out[k].call_id)).local_tag)

\* ------------------------------------------------------------ C38
\* C38: the To tag of every 180 Ringing the server sends for an INVITE is the
\* to_tag stored in the dialog of its Call-ID when it is sent, the To tag of
\* every 200 OK a timer sends is the to_tag stored in the timer's dialog when
\* it is sent, and the dialog a timer answers has not been answered before
\* (at most one 200 OK per dialog), also when an INVITE is repeated with the
\* same Call-ID while the dialog is RINGING.
C38_ToTagIsStored ==
  [][/\ last'.op = "s_invite"
          => \A k \in 1..Len(out') :
               out'[k].code = 180
                 => out'[k].to = Render(sObjs'[sTab'[out'[k].call_id]].to_tag)
     /\ last'.op = "s_timer_act"
          => \A t \in sTimers \ sTimers' :
               /\ sObjs[t.obj].local_sdp = None
               /\ \A k \in 1..Len(out') :
                    out'[k].code = 200 => out'[k].to = Render(sObjs[t.obj].to_tag)]_vars

\* ------------------------------------------------------------ C39
\* C39: an INVITE the client handles whose Call-ID names a dialog of its table
\* leaves that dialog in the table as it was: the table's dialog for the
\* Call-ID has the same state, local and remote tag, SDP and connected_at
\* after the INVITE is handled as before.
C39_InviteKeepsDialog ==
  [][(/\ last'.op = "c_invite"
      /\ CallManager_get_call(last'.msg.call_id) # 0)
       => /\ cTab'[last'.msg.call_id] # 0
          /\ cObjs'[cTab'[last'.msg.call_id]]
               = cObjs[cTab[last'.msg.call_id]]]_vars

\* ------------------------------------------------------------ C40
\* C40: the call_id initiate_call stores in its record is the Call-ID of the
\* dialog its make_call creates; the client's callbacks for a dialog set the
\* state of a record that carries the dialog's Call-ID; and hangup_call with a
\* recorded id, while the dialog of the call is active, makes the client send
\* a BYE for that dialog.
C40_RecordNamesDialog ==
  [][/\ last'.op = "make_call"
          => db'.calls[Len(db'.calls)].call_id = cObjs'[Len(cObjs')].call_id
     /\ last'.op \in {"c_response", "c_bye"}
          => \A k \in 1..Len(cbs') :
               \E j \in 1..Len(db'.calls) :
                 /\ db'.calls[j].call_id = cbs'[k].call_id
                 /\ db'.calls[j].state = ServiceState(cbs'[k].name)
     /\ (last'.op = "hangup" /\ CallManager_get_active_calls # {})
          => \E k \in 1..Len(out'), i \in CallManager_get_active_calls :
               out'[k].method = "BYE" /\ out'[k].call_id = cObjs[i].call_id]_vars

====
